---- MODULE Spec2Model ----
(***************************************************************************)
(* State-machine model of the CameraLab WebGL renderer                     *)
(* (apps/web/src/app/gl/WebGLImageRenderer.ts), its ping-pong framebuffer  *)
(* pool (PingPongFramebuffer), its composite shader and the subject        *)
(* estimator of the app (estimateSubjectContext in CameraLabApp.ts).       *)
(*                                                                         *)
(* Number representation                                                   *)
(*   - pixel sizes, clock values (ms): integers                            *)
(*   - upscaleFactor: in halves      (2 = 1x, 3 = 1.5x, ..., 8 = 4x)       *)
(*   - previewScale:  in quarters    (2 = 0.5, 3 = 0.75, 4 = 1)            *)
(*   - normalised coordinates and strengths: in thousandths (1000 = 1.0)   *)
(*   - IEEE-754 rounding: a product x * (c / x') computed in doubles may   *)
(*     land one ulp below an integral exact value, so Math.floor of it is  *)
(*     the exact quotient or one less (e.g. floor(2215 * (2048 / 2215)) =  *)
(*     2047).  Every such floor takes an error input e \in {0, 1} that is  *)
(*     applied only when the exact value is integral.                      *)
(***************************************************************************)
EXTENDS Integers, Sequences, FiniteSets, TLC

VARIABLES
    maxTextureSize,        \* gl.getParameter(MAX_TEXTURE_SIZE) of the device
    maxProcessDimension,   \* WebGLImageRenderer.maxProcessDimension
    sourceWidth,           \* WebGLImageRenderer.sourceWidth
    sourceHeight,          \* WebGLImageRenderer.sourceHeight
    sourceTexture,         \* what the source texture holds
    processWidth,          \* WebGLImageRenderer.processWidth
    processHeight,         \* WebGLImageRenderer.processHeight
    params,                \* WebGLImageRenderer.params (fields the renderer's control flow reads)
    pingPong,              \* PingPongFramebuffer: width, height, allocation of targets A and B
    frameIndex,            \* WebGLImageRenderer.frameIndex
    subjectContext,        \* WebGLImageRenderer.subjectContext
    lastHistogramUpdateMs, \* WebGLImageRenderer.lastHistogramUpdateMs
    histogramPixels,       \* WebGLImageRenderer.histogramPixels (the last readback)
    histogram,             \* WebGLImageRenderer.histogram
    histogramParams,       \* history of the app: the params its histogram was last computed under
    canvas,                \* canvas.width, canvas.height
    now,                   \* performance.now()
    glLog,                 \* the passes the most recent operation issued (<<>> when it drew nothing)
    snapshotResult,        \* what the most recent operation returned, when it was captureSnapshotCanvas()
    poolCall,              \* arguments of the most recent direct PingPongFramebuffer.resize call
    fragment,              \* the most recent composite-shader invocation and its outColor
    analysis,              \* the most recent estimateSubjectContext call and its result
    app,                   \* CameraLabApp: the fields of the app around the renderer
    subjects               \* what estimateSubjectContext returns on each picture the sources
                           \* of the app show (fixed from the start)

deviceVars == <<maxTextureSize, maxProcessDimension, subjects>>
sourceVars == <<sourceWidth, sourceHeight, sourceTexture>>
sizeVars == <<processWidth, processHeight, pingPong>>
histogramVars == <<lastHistogramUpdateMs, histogramPixels, histogram, histogramParams>>
callVars == <<poolCall, fragment, analysis, app>>
rendererVars == <<deviceVars, sourceVars, sizeVars, histogramVars, params, frameIndex,
                  subjectContext, canvas, now, glLog, snapshotResult>>

vars == <<rendererVars, callVars>>

-----------------------------------------------------------------------------
(* Bounds of the model *)

MaxFrames == 2      \* render() calls explored per behaviour (caps frameIndex)
MaxNow == 400       \* the clock is explored up to this many milliseconds
FracDen == 2        \* fractional inputs of PingPongFramebuffer.resize are multiples of 1/FracDen
MaxPoolInput == 5   \* direct PingPongFramebuffer.resize inputs range up to this many pixels
MaxAppFrames == 6   \* render() calls explored per behaviour of the app (mount() makes three)
MaxSnapshots == 2   \* clicks of the Snapshot button explored per behaviour
MaxSwitches == 3    \* source switches explored per behaviour (caps sourceSwitchToken)
MaxAppNow == 320    \* the clock of the app is explored up to this many milliseconds

-----------------------------------------------------------------------------
(* Program constants *)

HISTOGRAM_BINS == 64
HISTOGRAM_SIZE == 128
HISTOGRAM_INTERVAL_MS == 200
SUBJECT_ANALYSIS_INTERVAL_MS == 320
DEFAULT_MAX_PROCESS_PIXELS == 32000000
NegInfinity == -1000000000   \* lastHistogramUpdateMs = -Infinity: below every clock value

DEFAULT_SUBJECT_CONTEXT ==
    [center |-> [x |-> 500, y |-> 500],
     box |-> [x |-> 300, y |-> 300, width |-> 400, height |-> 400],
     strength |-> 0]

\* DEFAULT_CAMERA_PARAMS (state.ts).  Units: exposureEV, distortion, vignette,
\* chromaAberration, temperature, tint, contrast, saturation, sharpen, noiseReduction
\* and splitPosition in thousandths; shutter in 1/24000 s (3 = 1/8000 s, 1600 = 1/15 s);
\* aperture in tenths of an f-stop; focalLength in mm; focusDistance in tenths of a metre
DEFAULT_CAMERA_PARAMS ==
    [exposureEV |-> 0, shutter |-> 3, iso |-> 100, aperture |-> 14, focalLength |-> 18,
     focusDistance |-> 40, distortion |-> 0, vignette |-> 0, chromaAberration |-> 0,
     temperature |-> 0, tint |-> 0, contrast |-> 1000, saturation |-> 1000,
     sharpen |-> 220, noiseReduction |-> 150, toneMap |-> FALSE,
     upscaleFactor |-> 2, upscaleStyle |-> "balanced", previewScale |-> 4,
     previewMode |-> "processed", splitPosition |-> 500, histogramMode |-> "composite"]

-----------------------------------------------------------------------------
(* Arithmetic helpers *)

Max(a, b) == IF a >= b THEN a ELSE b
Min(a, b) == IF a <= b THEN a ELSE b

\* clampNumber(value, min, max) = Math.min(max, Math.max(min, value))
clampNumber(value, lo, hi) == Min(hi, Max(lo, value))

\* Math.floor of the double product x * (num / den), x * num / den exact in the reals
FloorFp(x, num, den, e) ==
    IF (x * num) % den = 0 THEN ((x * num) \div den) - e ELSE (x * num) \div den

\* largest n in lo..hi with n * n <= x  (lo * lo <= x assumed)
RECURSIVE SqrtSearch(_, _, _)
SqrtSearch(x, lo, hi) ==
    IF lo >= hi THEN lo
    ELSE LET mid == (lo + hi + 1) \div 2
         IN  IF mid * mid <= x THEN SqrtSearch(x, mid, hi) ELSE SqrtSearch(x, lo, mid - 1)

ISqrt(x) == SqrtSearch(x, 0, 46340)

IsSquare(x) == ISqrt(x) * ISqrt(x) = x

\* floor(w * budget / h) without leaving 32-bit integers: budget = 2048 * 15625
BudgetRatio(w, h, budget) ==
    LET lo == 2048
        hiPart == budget \div lo
        X == w * hiPart
    IN  (X \div h) * lo + ((X % h) * lo) \div h

BudgetRatioExact(w, h, budget) ==
    LET lo == 2048
        X == w * (budget \div lo)
    IN  ((X % h) * lo) % h = 0

\* Math.floor(w * Math.sqrt(budget / (w * h))): the real value is sqrt(w * budget / h)
FloorSqrtFp(w, h, budget, e) ==
    LET q == BudgetRatio(w, h, budget)
    IN  IF BudgetRatioExact(w, h, budget) /\ IsSquare(q) THEN ISqrt(q) - e ELSE ISqrt(q)

-----------------------------------------------------------------------------
(* PingPongFramebuffer *)

\* new PingPongFramebuffer(gl): width = height = 0, both targets created but not
\* allocated (size <<0, 0>>).  allocated counts the allocateTarget calls of the most
\* recent resize() call.
PingPongNew ==
    [width |-> 0, height |-> 0, targetA |-> <<0, 0>>, targetB |-> <<0, 0>>, allocated |-> 0]

\* allocateTarget: texImage2D(width, height) on the target's texture
allocateTarget(pp, target, width, height) ==
    IF target = "A"
    THEN [pp EXCEPT !.targetA = <<width, height>>, !.allocated = @ + 1]
    ELSE [pp EXCEPT !.targetB = <<width, height>>, !.allocated = @ + 1]

\* faulty variant: resize without the unchanged-size early return
PingPongResizeAlways(pp, width, height) ==
    LET safeWidth == Max(1, width \div FracDen)
        safeHeight == Max(1, height \div FracDen)
    IN  allocateTarget(
            allocateTarget([pp EXCEPT !.width = safeWidth, !.height = safeHeight,
                                      !.allocated = 0],
                           "A", safeWidth, safeHeight),
            "B", safeWidth, safeHeight)

\* PingPongFramebuffer.resize(width, height); the arguments are in units of 1/FracDen pixel
PingPongResize(pp, width, height) ==
    LET safeWidth == Max(1, width \div FracDen)
        safeHeight == Max(1, height \div FracDen)
    IN  IF safeWidth = pp.width /\ safeHeight = pp.height
        THEN [pp EXCEPT !.allocated = 0]
        ELSE allocateTarget(
                 allocateTarget([pp EXCEPT !.width = safeWidth, !.height = safeHeight,
                                           !.allocated = 0],
                                "A", safeWidth, safeHeight),
                 "B", safeWidth, safeHeight)

-----------------------------------------------------------------------------
(* ResolutionGovernor: updateProcessSize, computeSnapshotSize *)

\* coerceUpscaleFactor(value), value in halves
coerceUpscaleFactor(value) ==
    IF value >= 8 THEN 8
    ELSE IF value >= 7 THEN 7
    ELSE IF value >= 6 THEN 6
    ELSE IF value >= 5 THEN 5
    ELSE IF value >= 4 THEN 4
    ELSE IF value >= 3 THEN 3
    ELSE 2

\* faulty variant: each dimension is cut to maxDimension on its own
DimensionClampEach(size, maxDimension, fp) ==
    <<Min(size[1], maxDimension), Min(size[2], maxDimension)>>

\* first clamp: the largest dimension is scaled down to maxDimension
DimensionClamp(size, maxDimension, fp) ==
    LET maxDim == Max(size[1], size[2])
    IN  IF maxDim > maxDimension
        THEN <<Max(1, FloorFp(size[1], maxDimension, maxDim, fp[1])),
               Max(1, FloorFp(size[2], maxDimension, maxDim, fp[2]))>>
        ELSE size

\* faulty variant: the pixel clamp left out
PixelClampSkipped(size, maxPixels, fp) == size

\* second clamp: the pixel count is scaled down to maxPixels
PixelClamp(size, maxPixels, fp) ==
    IF size[1] * size[2] > maxPixels
    THEN <<Max(1, FloorSqrtFp(size[1], size[2], maxPixels, fp[3])),
           Max(1, FloorSqrtFp(size[2], size[1], maxPixels, fp[4]))>>
    ELSE size

\* source * upscale * previewScale, floored, at least 1 x 1
TargetSize(sw, sh, p) ==
    LET upscale == coerceUpscaleFactor(p.upscaleFactor)
        previewScale == clampNumber(p.previewScale, 2, 4)
    IN  <<Max(1, (sw * upscale * previewScale) \div 8),
          Max(1, (sh * upscale * previewScale) \div 8)>>

\* the size updateProcessSize computes (nextWidth, nextHeight)
NextProcessSize(sw, sh, p, maxDimension, fp) ==
    PixelClamp(DimensionClamp(TargetSize(sw, sh, p), maxDimension, fp),
               DEFAULT_MAX_PROCESS_PIXELS, fp)

\* computeSnapshotSize(upscaleFactor), upscaleFactor in halves
computeSnapshotSize(sw, sh, upscaleFactor, maxDimension, fp) ==
    LET target == <<Max(1, (sw * upscaleFactor) \div 2), Max(1, (sh * upscaleFactor) \div 2)>>
    IN  PixelClamp(DimensionClamp(target, maxDimension, fp), DEFAULT_MAX_PROCESS_PIXELS, fp)

\* updateProcessSize(): the renderer fields it leaves behind, as
\* [processWidth, processHeight, pingPong]
updateProcessSize(sw, sh, p, pw, ph, pp, maxDimension, fp) ==
    LET next == NextProcessSize(sw, sh, p, maxDimension, fp)
    IN  IF next[1] = pw /\ next[2] = ph
        THEN [processWidth |-> pw, processHeight |-> ph, pingPong |-> pp]
        ELSE [processWidth |-> next[1], processHeight |-> next[2],
              pingPong |-> PingPongResize(pp, next[1] * FracDen, next[2] * FracDen)]

\* ensureSourceSize(width, height): [sourceWidth, sourceHeight, sourceTexture,
\* processWidth, processHeight, pingPong]
ensureSourceSize(width, height, sw, sh, tex, p, pw, ph, pp, maxDimension, fp) ==
    LET safeWidth == Max(1, width)
        safeHeight == Max(1, height)
    IN  IF safeWidth = sw /\ safeHeight = sh
        THEN [sourceWidth |-> sw, sourceHeight |-> sh, sourceTexture |-> tex,
              processWidth |-> pw, processHeight |-> ph, pingPong |-> pp]
        ELSE LET u == updateProcessSize(safeWidth, safeHeight, p, pw, ph, pp, maxDimension, fp)
             IN  [sourceWidth |-> safeWidth, sourceHeight |-> safeHeight,
                  sourceTexture |-> "blank",
                  processWidth |-> u.processWidth, processHeight |-> u.processHeight,
                  pingPong |-> u.pingPong]

-----------------------------------------------------------------------------
(* HistogramExtractor *)

\* What gl.readPixels leaves in histogramPixels is the GPU's output; the model draws it
\* from these 128 x 128 RGBA images.  "zero" is the freshly constructed Uint8Array.
Readbacks == {"flat", "ramp", "hash", "white"}

\* pixels[4 * i], pixels[4 * i + 1], pixels[4 * i + 2] of readback px
Pixel(px, i) ==
    CASE px = "zero" -> <<0, 0, 0>>
      [] px = "flat" -> <<20, 23, 28>>
      [] px = "ramp" -> <<2 * (i % HISTOGRAM_SIZE), 2 * (i \div HISTOGRAM_SIZE),
                          255 - 2 * (i % HISTOGRAM_SIZE)>>
      [] px = "hash" -> <<(i * 73) % 256, (i * 151 + 17) % 256, (i * i) % 256>>
      [] px = "white" -> <<255, 255, 255>>

\* faulty variant: the bin index scaled by 255 and not clamped
HistBinUnclamped(value) == (value * HISTOGRAM_BINS) \div 255

\* Math.min(binsMinusOne, (value * HISTOGRAM_BINS) >> 8)
HistBin(value) == Min(HISTOGRAM_BINS - 1, (value * HISTOGRAM_BINS) \div 256)

\* this.histogram.r[bin] += 1; a write outside the typed array is dropped
Bump(bins, bin) == IF bin \in DOMAIN bins THEN [bins EXCEPT ![bin] = @ + 1] ELSE bins

\* the binning loop over the pixels i .. stop - 1, in index order.  The range is split
\* in halves (first half, then second half) to keep the depth of the evaluation
\* logarithmic; the test of acc, always false, makes the accumulator strict.
RECURSIVE BinLoop(_, _, _, _)
BinLoop(px, i, stop, acc) ==
    IF acc.r[0] < 0 \/ i >= stop THEN acc
    ELSE IF stop - i = 1
    THEN LET c == Pixel(px, i)
         IN  [r |-> Bump(acc.r, HistBin(c[1])),
              g |-> Bump(acc.g, HistBin(c[2])),
              b |-> Bump(acc.b, HistBin(c[3]))]
    ELSE LET mid == (i + stop) \div 2
         IN  BinLoop(px, mid, stop, BinLoop(px, i, mid, acc))

ZeroBins == [i \in 0 .. HISTOGRAM_BINS - 1 |-> 0]

\* the largest of bins[i .. stop - 1], the range split in halves like BinLoop
RECURSIVE MaxOver(_, _, _)
MaxOver(bins, i, stop) ==
    IF stop - i = 1 THEN bins[i]
    ELSE Max(MaxOver(bins, i, (i + stop) \div 2), MaxOver(bins, (i + stop) \div 2, stop))

\* the bins and maxBin (at least 1) buildHistogramBins computes from one readback
BinsOf(px) ==
    LET acc == BinLoop(px, 0, HISTOGRAM_SIZE * HISTOGRAM_SIZE,
                       [r |-> ZeroBins, g |-> ZeroBins, b |-> ZeroBins])
    IN  [r |-> acc.r, g |-> acc.g, b |-> acc.b,
         maxBin |-> Max(Max(1, MaxOver(acc.r, 0, HISTOGRAM_BINS)),
                        Max(MaxOver(acc.g, 0, HISTOGRAM_BINS),
                            MaxOver(acc.b, 0, HISTOGRAM_BINS)))]

\* BinsOf tabulated once per readback image
BinsTable ==
    [flat |-> BinsOf("flat"), ramp |-> BinsOf("ramp"), hash |-> BinsOf("hash"),
     white |-> BinsOf("white")]

\* buildHistogramBins(): refill the bins from histogramPixels, version += 1
buildHistogramBins(h, px) ==
    [r |-> BinsTable[px].r, g |-> BinsTable[px].g, b |-> BinsTable[px].b,
     maxBin |-> BinsTable[px].maxBin, version |-> h.version + 1]

HistogramNew == [r |-> ZeroBins, g |-> ZeroBins, b |-> ZeroBins, maxBin |-> 0, version |-> 0]

-----------------------------------------------------------------------------
(* Subject context *)

\* setSubjectContext(context): the value stored; context is <<>> for null and <<c>>
\* for a context c, all numbers in thousandths
setSubjectContext(context) ==
    IF context = <<>>
    THEN DEFAULT_SUBJECT_CONTEXT
    ELSE LET c == context[1]
             x == clampNumber(c.box.x, 0, 1000)
             y == clampNumber(c.box.y, 0, 1000)
             width == clampNumber(c.box.width, 20, 1000)
             height == clampNumber(c.box.height, 20, 1000)
         IN  [center |-> [x |-> clampNumber(c.center.x, 0, 1000),
                          y |-> clampNumber(c.center.y, 0, 1000)],
              box |-> [x |-> x, y |-> y,
                       width |-> Min(width, 1000 - x),
                       height |-> Min(height, 1000 - y)],
              strength |-> clampNumber(c.strength, 0, 1000)]

-----------------------------------------------------------------------------
(* Pipeline passes.  A pass is logged with the surfaces it samples, the        *)
(* framebuffer it draws into, its viewport and the uPreviewMode uniform.       *)

Pass(stage, read, write, viewport, mode) ==
    [stage |-> stage, read |-> read, write |-> write, viewport |-> viewport,
     uPreviewMode |-> mode]

\* previewModeToUniform(mode)
previewModeToUniform(mode) ==
    IF mode = "original" THEN 0 ELSE IF mode = "processed" THEN 1 ELSE 2

\* histogramPreviewMode()
histogramPreviewMode(p) ==
    IF p.histogramMode = "original" THEN "original"
    ELSE IF p.histogramMode = "processed" THEN "processed"
    ELSE p.previewMode

\* runInputPass: draws the source texture into pingPong.getA()
runInputPass(pw, ph) == Pass("Input", {"source"}, "A", <<pw, ph>>, -1)

\* runLensPass: read = pingPong.getA(), write = pingPong.getB()
runLensPass(pw, ph) == Pass("Lens", {"A"}, "B", <<pw, ph>>, -1)

\* faulty variant: the effects pass samples the surface it draws into
runEffectsPassInPlace(pw, ph) == Pass("Effects", {"A"}, "A", <<pw, ph>>, -1)

\* runEffectsPass: read = pingPong.getB(), write = pingPong.getA()
runEffectsPass(pw, ph) == Pass("Effects", {"B"}, "A", <<pw, ph>>, -1)

\* drawComposite into the bound framebuffer: samples the source texture and
\* pingPong.getA()
drawComposite(stage, target, viewport, mode) ==
    Pass(stage, {"source", "A"}, target, viewport, previewModeToUniform(mode))

\* runCompositePass: framebuffer null (the canvas), viewport = canvas size
runCompositePass(cv, p) == drawComposite("Composite", "canvas", cv, p.previewMode)

-----------------------------------------------------------------------------------------------------------------------------------------------------
(* Construction *)

NoSnapshot == [status |-> "none", size |-> <<0, 0>>]
NoCall == [called |-> FALSE]

\* no frame has been read back for analysis
NoFrame == [width |-> 0, height |-> 0, bg |-> <<0, 0, 0>>, fg |-> <<0, 0, 0>>,
            rect |-> <<0, 0, -1, -1>>]

\* what the most recent handler of the app did: its kind, the call of
\* updateSubjectContextForRenderer it made ("none", "forced", "nonforced"), whether that
\* call ran the analysis, the number of times the parameter store notified its
\* subscriber, and the number of frames of the webcam loop that ran
NoOp == [kind |-> "none", update |-> "none", analysed |-> FALSE, emits |-> 0, frames |-> 0]

\* the fields of CameraLabApp after construction.  webcamVideo: a video element is
\* attached; webcamStream: the request (by its sourceSwitchToken) whose MediaStream
\* this.webcamStream holds, 0 for undefined; streams: the requests whose MediaStream
\* startWebcam() obtained and whose tracks have not been stopped; webcamFrameHandle:
\* the handle names a requestAnimationFrame callback that is pending; pendingFrames:
\* the number of pending callbacks of the webcam loop; destroyed: destroy() ran;
\* webcamRequests: the sourceSwitchToken of every startWebcam() still awaited;
\* loadedImage, latestSubjectContext: <<>> for null; state: CameraParamStore.state;
\* listeners: CameraParamStore.listeners; snapshots: the calls of captureSnapshotPng()
\* that are awaiting, each with its previousPreviewScale and what it awaits;
\* snapshotClicks: the calls made so far;
\* analysedAt, disabledSince: time of the most recent subject analysis and whether
\* disableWebcam() ran after it
AppNew ==
    [mounted |-> FALSE, destroyed |-> FALSE, sourceMode |-> "image",
     webcamVideo |-> FALSE, webcamStream |-> 0, streams |-> {},
     webcamFrameHandle |-> FALSE, pendingFrames |-> 0, sourceSwitchToken |-> 0,
     webcamRequests |-> {},
     aiRequestInFlight |-> FALSE,
     loadedImage |-> <<>>, latestSubjectContext |-> <<>>,
     lastSubjectAnalysisMs |-> NegInfinity, state |-> DEFAULT_CAMERA_PARAMS,
     listeners |-> {},
     customPresets |-> <<>>, snapshots |-> {}, snapshotClicks |-> 0,
     analysedAt |-> NegInfinity, disabledSince |-> FALSE,
     op |-> NoOp]

\* constructor: maxProcessDimension from the device limit
MaxProcessDimensionOf(maxTex) == Max(2048, Min(maxTex, 8192))

\* The fields left by the constructor, on a device with this texture limit and sources
\* that show these pictures.  initializeSourceTexture() calls
\* ensureSourceSize(1, 1) on sourceWidth = sourceHeight = 1 and then uploads the
\* 1 x 1 initial pixel.
ConstructedOn(maxTex, pictures) ==
    LET e == ensureSourceSize(1, 1, 1, 1, "none", DEFAULT_CAMERA_PARAMS, 1, 1, PingPongNew,
                              MaxProcessDimensionOf(maxTex), <<0, 0, 0, 0>>)
    IN  /\ maxTextureSize = maxTex
        /\ maxProcessDimension = MaxProcessDimensionOf(maxTex)
        /\ sourceWidth = e.sourceWidth
        /\ sourceHeight = e.sourceHeight
        /\ sourceTexture = "initial"
        /\ processWidth = e.processWidth
        /\ processHeight = e.processHeight
        /\ pingPong = e.pingPong
        /\ params = DEFAULT_CAMERA_PARAMS
        /\ frameIndex = 0
        /\ subjectContext = DEFAULT_SUBJECT_CONTEXT
        /\ lastHistogramUpdateMs = NegInfinity
        /\ histogramPixels = "zero"
        /\ histogram = HistogramNew
        /\ histogramParams = <<>>
        /\ canvas = <<300, 150>>
        /\ now = 0
        /\ glLog = <<>>
        /\ snapshotResult = NoSnapshot
        /\ poolCall = NoCall
        /\ fragment = NoCall
        /\ analysis = [called |-> FALSE, frame |-> NoFrame]
        /\ app = AppNew
        /\ subjects = pictures

\* the renderer on its own: its sources show no picture the app analyses
Constructed(maxTex) == ConstructedOn(maxTex, <<>>)

-----------------------------------------------------------------------------
(* Operations of the renderer *)

\* the rounding-error inputs <<dimension clamp width, height, pixel clamp width, height>>:
\* every floor exact, or every floor of an integral value one below it
FpErrors == {<<0, 0, 0, 0>>, <<1, 1, 1, 1>>}

\* setParams(params)
SetParams(p, fp) ==
    LET u == updateProcessSize(sourceWidth, sourceHeight, p, processWidth, processHeight,
                               pingPong, maxProcessDimension, fp)
    IN  /\ params' = p
        /\ processWidth' = u.processWidth
        /\ processHeight' = u.processHeight
        /\ pingPong' = u.pingPong
        /\ glLog' = <<>>
        /\ snapshotResult' = NoSnapshot
        /\ UNCHANGED <<deviceVars, sourceVars, histogramVars, frameIndex, subjectContext,
                       canvas, now, callVars>>

\* the common body of setImage / setVideoSource / updateVideoFrame: ensureSourceSize,
\* then the upload into the source texture
UploadSource(size, content, fp) ==
    LET e == ensureSourceSize(size[1], size[2], sourceWidth, sourceHeight, sourceTexture,
                              params, processWidth, processHeight, pingPong,
                              maxProcessDimension, fp)
    IN  /\ sourceWidth' = e.sourceWidth
        /\ sourceHeight' = e.sourceHeight
        /\ sourceTexture' = content
        /\ processWidth' = e.processWidth
        /\ processHeight' = e.processHeight
        /\ pingPong' = e.pingPong
        /\ glLog' = <<>>
        /\ snapshotResult' = NoSnapshot
        /\ UNCHANGED <<deviceVars, histogramVars, params, frameIndex, subjectContext,
                       canvas, now, callVars>>

\* setImage(image): size = <<naturalWidth, naturalHeight>>
SetImage(size, fp) == UploadSource(size, "image", fp)

\* setVideoSource(video): size = <<videoWidth, videoHeight>>
SetVideoSource(size, fp) == UploadSource(size, "video", fp)

\* updateVideoFrame(video)
UpdateVideoFrame(size, fp) == UploadSource(size, "video", fp)

\* setSubjectContext(context)
SetSubjectContext(context) ==
    /\ subjectContext' = setSubjectContext(context)
    /\ glLog' = <<>>
    /\ snapshotResult' = NoSnapshot
    /\ UNCHANGED <<deviceVars, sourceVars, sizeVars, histogramVars, params, frameIndex,
                   canvas, now, callVars>>

\* faulty variant: the rate limit left out
HistogramDueAlways(t, last) == TRUE

\* updateHistogramIfNeeded(): TRUE when the rate limit lets the recompute run
HistogramDue(t, last) == ~(t - last < HISTOGRAM_INTERVAL_MS)

\* the four stages of render(), in the order they are issued
RenderPasses(pw, ph, cv, p) ==
    <<runInputPass(pw, ph), runLensPass(pw, ph), runEffectsPass(pw, ph),
      runCompositePass(cv, p)>>

\* render() on a canvas of size cv; the readback is drawn from readbacks (a call
\* outside the app: its history is not recorded)
RenderOn(cv, readbacks) ==
    /\ frameIndex < MaxFrames
    /\ IF HistogramDue(now, lastHistogramUpdateMs)
       THEN /\ lastHistogramUpdateMs' = now
            /\ glLog' = Append(RenderPasses(processWidth, processHeight, cv, params),
                               drawComposite("Histogram", "histogram",
                                             <<HISTOGRAM_SIZE, HISTOGRAM_SIZE>>,
                                             histogramPreviewMode(params)))
            /\ histogramParams' = histogramParams
            /\ \E px \in readbacks :
                   /\ histogramPixels' = px
                   /\ histogram' = buildHistogramBins(histogram, px)
       ELSE /\ glLog' = RenderPasses(processWidth, processHeight, cv, params)
            /\ UNCHANGED histogramVars
    /\ frameIndex' = frameIndex + 1
    /\ snapshotResult' = NoSnapshot
    /\ UNCHANGED <<deviceVars, sourceVars, sizeVars, params, subjectContext, now, callVars>>

\* render()
Render(readbacks) == RenderOn(canvas, readbacks) /\ canvas' = canvas

\* resize(): the canvas takes the size of its client box, then render()
Resize(cv, readbacks) == RenderOn(cv, readbacks) /\ canvas' = cv

\* the three stages captureSnapshotCanvas() runs before it sizes its target
SnapshotPasses(pw, ph) ==
    <<runInputPass(pw, ph), runLensPass(pw, ph), runEffectsPass(pw, ph)>>

\* captureSnapshotCanvas(upscaleFactor): the passes it draws and what it returns.  gl
\* is what the WebGL context and the 2D canvas hand out: "ok", "noFramebuffer"
\* (createFramebuffer returns null), "noTexture" (createTexture throws), "no2d"
\* (getContext("2d") returns null).
captureSnapshotCanvas(upscaleFactor, gl, fp) ==
    LET passes == SnapshotPasses(processWidth, processHeight)
        target == computeSnapshotSize(sourceWidth, sourceHeight, upscaleFactor,
                                      maxProcessDimension, fp)
    IN  IF gl = "noTexture"
        THEN [log |-> passes, result |-> [status |-> "threw", size |-> <<0, 0>>]]
        ELSE IF gl = "noFramebuffer"
        THEN [log |-> passes, result |-> [status |-> "null", size |-> <<0, 0>>]]
        ELSE [log |-> Append(passes,
                             drawComposite("Composite", "snapshot", target,
                                           params.previewMode)),
              result |-> IF gl = "no2d"
                         THEN [status |-> "null", size |-> <<0, 0>>]
                         ELSE [status |-> "canvas", size |-> target]]

\* a direct call of captureSnapshotCanvas(upscaleFactor)
CaptureSnapshotCanvas(upscaleFactor, gl, fp) ==
    LET capture == captureSnapshotCanvas(upscaleFactor, gl, fp)
    IN  /\ glLog' = capture.log
        /\ snapshotResult' = capture.result
        /\ UNCHANGED <<deviceVars, sourceVars, sizeVars, histogramVars, params, frameIndex,
                       subjectContext, canvas, now, callVars>>

\* the clock advances by d milliseconds
Tick(d, limit) ==
    /\ now + d <= limit
    /\ now' = now + d
    /\ glLog' = <<>>
    /\ snapshotResult' = NoSnapshot
    /\ UNCHANGED <<deviceVars, sourceVars, sizeVars, histogramVars, params, frameIndex,
                   subjectContext, canvas, callVars>>

\* a direct call pingPong.resize(width, height), arguments in units of 1/FracDen pixel
PoolResize(width, height) ==
    /\ pingPong' = PingPongResize(pingPong, width, height)
    /\ poolCall' = [called |-> TRUE, width |-> width, height |-> height]
    /\ UNCHANGED <<deviceVars, sourceVars, processWidth, processHeight, histogramVars,
                   params, frameIndex, subjectContext, canvas, now, glLog, snapshotResult,
                   fragment, analysis, app>>

-----
(* Spec: source changes, parameter changes, frames and snapshots, on every    *)
(* device class.  The clock stands still, so only the first frame recomputes  *)
(* the histogram.                                                              *)

DeviceTextureSizes == {1024, 4096, 16384}

\* <<naturalWidth, naturalHeight>> / <<videoWidth, videoHeight>>; <<0, 0>> is an image
\* that failed to decode or a video without metadata
SourceSizes == {<<0, 0>>, <<640, 480>>, <<3000, 2000>>}

UpscaleFactors == 2 .. 8
PreviewScales == 2 .. 4

ResolutionParams ==
    {[DEFAULT_CAMERA_PARAMS EXCEPT !.upscaleFactor = u, !.previewScale = s] :
        u \in UpscaleFactors, s \in PreviewScales}

ModeParams ==
    {[DEFAULT_CAMERA_PARAMS EXCEPT !.previewMode = m, !.histogramMode = h,
                                   !.splitPosition = sp] :
        m \in {"original", "processed", "split"},
        h \in {"original", "processed", "composite"},
        sp \in {0, 500, 1000}}

GlOutcomes == {"ok", "noFramebuffer", "noTexture", "no2d"}

Init == \E maxTex \in DeviceTextureSizes : Constructed(maxTex)

Next ==
    \/ \E p \in ResolutionParams, fp \in FpErrors : SetParams(p, fp)
    \/ \E size \in SourceSizes, fp \in FpErrors : SetImage(size, fp)
    \/ \E size \in SourceSizes, fp \in FpErrors : SetVideoSource(size, fp)
    \/ \E size \in SourceSizes, fp \in FpErrors : UpdateVideoFrame(size, fp)
    \/ Render({"flat"})
    \/ \E u \in {2, 8}, gl \in GlOutcomes, fp \in FpErrors : CaptureSnapshotCanvas(u, gl, fp)

Spec == Init /\ [][Next]_vars

-----------------------------------------------------------------------------
(* SpecHistogram: frames, canvas resizes and mode changes on a running clock *)

CanvasSizes == {<<300, 150>>, <<800, 600>>}

TickSteps == {50, 150, 200}

InitHistogram == Constructed(4096)

NextHistogram ==
    \/ \E p \in ModeParams : SetParams(p, <<0, 0, 0, 0>>)
    \/ Render(Readbacks)
    \/ \E cv \in CanvasSizes : Resize(cv, Readbacks)
    \/ \E d \in TickSteps : Tick(d, MaxNow)

SpecHistogram == InitHistogram /\ [][NextHistogram]_vars

-----------------------------------------------------------------------------
(* SpecPool: the framebuffer pool on its own, resized with arbitrary arguments *)
(* (zero, negative and fractional included)                                    *)

PoolInputs == (-FracDen) .. (MaxPoolInput * FracDen + 1)

NextPool == \E width \in PoolInputs, height \in PoolInputs : PoolResize(width, height)

SpecPool == Constructed(4096) /\ [][NextPool]_vars

-----------------------------------------------------------------------------
(* Composite shader (COMPOSITE_FRAGMENT_SOURCE).  A fragment is the pixel      *)
(* (col, row) of a vp[1] x vp[2] viewport; its vUv is the pixel centre         *)
(* ((2 col + 1) / (2 vp[1]), (2 row + 1) / (2 vp[2])).  Coordinates are exact  *)
(* fractions <<xNum, xDen, yNum, yDen>> with positive denominators.            *)

\* getContainedUv(vUv), uImageSize = image, uCanvasSize = cvs
getContainedUv(col, row, vp, image, cvs) ==
    LET ux == 2 * col + 1
        uy == 2 * row + 1
        iwch == image[1] * cvs[2]
        cwih == cvs[1] * image[2]
    IN  IF cwih > iwch   \* canvasAspect > imageAspect
        THEN <<(ux - vp[1]) * cwih + vp[1] * iwch, 2 * vp[1] * iwch, uy, 2 * vp[2]>>
        ELSE <<ux, 2 * vp[1], (uy - vp[2]) * iwch + vp[2] * cwih, 2 * vp[2] * cwih>>

\* outsideUv(uv)
outsideUv(uv) == uv[1] < 0 \/ uv[1] > uv[2] \/ uv[3] < 0 \/ uv[3] > uv[4]

\* faulty variant: the split comparison with its sides exchanged
CompositeMainSwapped(col, row, vp, image, cvs, uPreviewMode, uSplitPosition) ==
    IF outsideUv(getContainedUv(col, row, vp, image, cvs)) THEN "background"
    ELSE IF 2 * uPreviewMode < 1 THEN "original"
    ELSE IF 2 * uPreviewMode > 3
    THEN IF (2 * col + 1) * 1000 > uSplitPosition * 2 * vp[1] THEN "original"
         ELSE "processed"
    ELSE "processed"

\* main(): which colour the fragment takes; uSplitPosition in thousandths
CompositeMain(col, row, vp, image, cvs, uPreviewMode, uSplitPosition) ==
    IF outsideUv(getContainedUv(col, row, vp, image, cvs)) THEN "background"
    ELSE IF 2 * uPreviewMode < 1 THEN "original"
    ELSE IF 2 * uPreviewMode > 3
    THEN IF (2 * col + 1) * 1000 < uSplitPosition * 2 * vp[1] THEN "original"
         ELSE "processed"
    ELSE "processed"

\* one fragment of a drawComposite() call: the uniforms are set from the source size,
\* the canvas size handed in, the preview mode and params.splitPosition
ShadeFragment(col, row, vp, image, cvs, mode, split) ==
    /\ fragment' = [called |-> TRUE, col |-> col, row |-> row, viewport |-> vp,
                    image |-> image, canvas |-> cvs, mode |-> mode,
                    splitPosition |-> split,
                    out |-> CompositeMain(col, row, vp, image, cvs,
                                          previewModeToUniform(mode), split)]
    /\ UNCHANGED <<rendererVars, poolCall, analysis, app>>

-----------------------------------------------------------------------------
(* SpecComposite: the composite shader over every fragment of a small         *)
(* viewport, for a canvas wider than, as wide as and narrower than the image   *)

CompositeViewport == <<4, 2>>

\* <<uImageSize, uCanvasSize>>
CompositeGeometries ==
    {<<<<1, 1>>, <<2, 1>>>>, <<<<4, 2>>, <<4, 2>>>>, <<<<2, 1>>, <<1, 1>>>>}

PreviewModes == {"original", "processed", "split"}

SplitPositions == {0, 500, 1000}

NextComposite ==
    \E col \in 0 .. CompositeViewport[1] - 1, row \in 0 .. CompositeViewport[2] - 1,
       g \in CompositeGeometries, mode \in PreviewModes, split \in SplitPositions :
        ShadeFragment(col, row, CompositeViewport, g[1], g[2], mode, split)

SpecComposite == Constructed(4096) /\ [][NextComposite]_vars

-----------------------------------------------------------------------------
(* SpecSubject: setSubjectContext with null and with contexts whose fields lie *)
(* inside, on the edge of and outside their ranges                             *)

SubjectInputs ==
    {<<>>} \cup
    {<<[center |-> [x |-> c[1], y |-> c[2]],
        box |-> [x |-> bx, y |-> by, width |-> bw, height |-> bh],
        strength |-> s]>> :
        c \in {<<-200, 1300>>, <<500, 500>>}, bx \in {0, 300, 990, 1000},
        by \in {0, 985, 1000}, bw \in {10, 500, 1300}, bh \in {0, 400},
        s \in {-100, 500, 1500}}

NextSubject == \E context \in SubjectInputs : SetSubjectContext(context)

SpecSubject == Constructed(4096) /\ [][NextSubject]_vars

-----------------------------------------------------------------------------
(* Subject estimator (estimateSubjectContext).  Luminance, salience and the    *)
(* fields of the result are in thousandths; pixel coordinates are integers.    *)

\* clamp(value, min, max) = Math.min(max, Math.max(min, value))
clamp(value, lo, hi) == Min(hi, Max(lo, value))

\* Math.round(num / den) for num >= 0 and den > 0
Round(num, den) == (2 * num + den) \div (2 * den)

Abs(a) == IF a < 0 THEN -a ELSE a

\* fn[lo] + ... + fn[hi]
RECURSIVE Sum(_, _, _)
Sum(fn, lo, hi) ==
    IF lo > hi THEN 0
    ELSE IF lo = hi THEN fn[lo]
    ELSE LET mid == (lo + hi) \div 2
         IN  Sum(fn, lo, mid) + Sum(fn, mid + 1, hi)

\* the sum of fn over the indices in S, a subset of 0 .. n - 1
SumOver(fn, S, n) == Sum([i \in 0 .. n - 1 |-> IF i \in S THEN fn[i] ELSE 0], 0, n - 1)

SetMin(S) == CHOOSE m \in S : \A n \in S : m <= n
SetMax(S) == CHOOSE m \in S : \A n \in S : m >= n

\* floor(a * s / b) for a >= 0, b > 0 and s a power of ten, by long division, without
\* forming a * s
RECURSIVE MulDiv(_, _, _)
MulDiv(a, s, b) ==
    IF s = 1 THEN a \div b
    ELSE (a \div b) * s + MulDiv((a % b) * 10, s \div 10, b)

\* 1000 * e^(t / 1000) by the power series, term = 1000 * (t / 1000)^(k - 1) / (k - 1)!
RECURSIVE ExpSeries(_, _, _)
ExpSeries(t, k, term) ==
    IF term = 0 THEN 0 ELSE term + ExpSeries(t, k + 1, (term * t) \div (k * 1000))

\* Math.exp(-(nx * nx + ny * ny) / (2 * sigma * sigma)), sigma = 0.38, at pixel (x, y)
centerWeight(x, y, width, height) ==
    LET nx2 == ((2 * x + 1 - width) * (2 * x + 1 - width) * 10000) \div (4 * width * width)
        ny2 == ((2 * y + 1 - height) * (2 * y + 1 - height) * 10000)
               \div (4 * height * height)
        t == ((nx2 + ny2) * 1000) \div 2888
    IN  (1000 * 1000) \div ExpSeries(t, 1, 1000)

\* srgbToLinear(level / 255) for the 8-bit levels the frames use: value / 12.92 up to
\* 0.04045, ((value + 0.055) / 1.055) ^ 2.4 above
srgbToLinear(level) ==
    CASE level = 0 -> 0
      [] level = 10 -> 3
      [] level = 64 -> 51
      [] level = 128 -> 216
      [] level = 192 -> 527
      [] level = 255 -> 1000

\* clamp(r * 0.2126 + g * 0.7152 + b * 0.0722, 0, 1) of an RGB pixel
Luminance(c) ==
    clamp((2126 * srgbToLinear(c[1]) + 7152 * srgbToLinear(c[2])
           + 722 * srgbToLinear(c[3])) \div 10000, 0, 1000)

\* the pixel (x, y) of frame f: colour fg inside rect = <<x0, y0, x1, y1>>, bg outside
FramePixel(f, x, y) ==
    IF x >= f.rect[1] /\ x <= f.rect[3] /\ y >= f.rect[2] /\ y <= f.rect[4]
    THEN f.fg ELSE f.bg

\* energy of the interior pixel i: gradient * (0.58 + centerWeight * 0.42)
Energy(luminance, i, width, height) ==
    LET gx == Abs(luminance[i + 1] - luminance[i - 1])
        gy == Abs(luminance[i + width] - luminance[i - width])
    IN  ((gx + gy) * (580 + (centerWeight(i % width, i \div width, width, height) * 420)
                             \div 1000)) \div 1000

\* regionLuminanceMean(luminance, width, height, minX, minY, maxX, maxY)
regionLuminanceMean(luminance, width, height, minX, minY, maxX, maxY) ==
    LET x0 == clamp(minX, 0, width - 1)
        y0 == clamp(minY, 0, height - 1)
        x1 == clamp(maxX, 0, width - 1)
        y1 == clamp(maxY, 0, height - 1)
        R == {i \in 0 .. width * height - 1 :
                  /\ i % width >= x0 /\ i % width <= x1
                  /\ i \div width >= y0 /\ i \div width <= y1}
    IN  IF R # {} THEN SumOver(luminance, R, width * height) \div Cardinality(R) ELSE 0

\* faulty variant: a frame of exactly 64 pixels rejected too
TooSmallInclusive(pixelCount) == pixelCount <= 64

\* pixelCount < 64: the frame is too small to analyse
TooSmall(pixelCount) == pixelCount < 64

\* the value returned for near-zero total salience
DegenerateContext(avgLuminance) ==
    [center |-> [x |-> 500, y |-> 500],
     box |-> [x |-> 300, y |-> 300, width |-> 400, height |-> 400],
     areaRatio |-> 160, brightness |-> avgLuminance, sharpness |-> 0, offCenter |-> 0,
     backlit |-> FALSE]

\* The phases of estimateSubjectContext.  Each phase hands the values it computed to
\* the next one, in the order the function computes them.

\* faulty variant: backlit without the ceiling of 0.6 on the subject brightness
SubjectResultNoCeiling(width, height, centerXNorm, centerYNorm, box, subjectBrightness, subjectSalienceSum, selectedCount, ringBrightness) ==
    LET boxWidthPx == Max(1, box[3] - box[1] + 1)
        boxHeightPx == Max(1, box[4] - box[2] + 1)
    IN  [center |-> [x |-> centerXNorm, y |-> centerYNorm],
         box |-> [x |-> clamp((box[1] * 1000) \div width, 0, 1000),
                  y |-> clamp((box[2] * 1000) \div height, 0, 1000),
                  width |-> clamp((boxWidthPx * 1000) \div width, 0, 1000),
                  height |-> clamp((boxHeightPx * 1000) \div height, 0, 1000)],
         pixelBox |-> box,
         areaRatio |-> clamp((boxWidthPx * boxHeightPx * 1000) \div (width * height),
                             0, 1000),
         brightness |-> subjectBrightness,
         sharpness |-> clamp((subjectSalienceSum * 100)
                             \div (16 * Max(1, selectedCount)), 0, 1000),
         offCenter |-> clamp((ISqrt((centerXNorm - 500) * (centerXNorm - 500)
                                    + (centerYNorm - 500) * (centerYNorm - 500))
                              * 10000) \div 7071, 0, 1000),
         backlit |-> ringBrightness - subjectBrightness > 110]

\* the result record, from the padded box <<minX, minY, maxX, maxY>> and the ring mean;
\* pixelBox keeps that box in pixels, as it is before it is divided by the frame size
SubjectResult(width, height, centerXNorm, centerYNorm, box, subjectBrightness, subjectSalienceSum, selectedCount, ringBrightness) ==
    LET boxWidthPx == Max(1, box[3] - box[1] + 1)
        boxHeightPx == Max(1, box[4] - box[2] + 1)
    IN  [center |-> [x |-> centerXNorm, y |-> centerYNorm],
         box |-> [x |-> clamp((box[1] * 1000) \div width, 0, 1000),
                  y |-> clamp((box[2] * 1000) \div height, 0, 1000),
                  width |-> clamp((boxWidthPx * 1000) \div width, 0, 1000),
                  height |-> clamp((boxHeightPx * 1000) \div height, 0, 1000)],
         pixelBox |-> box,
         areaRatio |-> clamp((boxWidthPx * boxHeightPx * 1000) \div (width * height),
                             0, 1000),
         brightness |-> subjectBrightness,
         sharpness |-> clamp((subjectSalienceSum * 100)
                             \div (16 * Max(1, selectedCount)), 0, 1000),
         offCenter |-> clamp((ISqrt((centerXNorm - 500) * (centerXNorm - 500)
                                    + (centerYNorm - 500) * (centerYNorm - 500))
                              * 10000) \div 7071, 0, 1000),
         backlit |-> (ringBrightness - subjectBrightness > 110
                      /\ subjectBrightness < 600)]

\* the pixels of the box expanded 1.55x about its centre that lie outside the box
RingPixels(width, height, box) ==
    LET expandedHalfW == Round(Max(1, box[3] - box[1] + 1) * 155, 200)
        expandedHalfH == Round(Max(1, box[4] - box[2] + 1) * 155, 200)
        centerPxX == Round(box[1] + box[3], 2)
        centerPxY == Round(box[2] + box[4], 2)
        exMinX == clamp(centerPxX - expandedHalfW, 0, width - 1)
        exMaxX == clamp(centerPxX + expandedHalfW, 0, width - 1)
        exMinY == clamp(centerPxY - expandedHalfH, 0, height - 1)
        exMaxY == clamp(centerPxY + expandedHalfH, 0, height - 1)
    IN  {i \in 0 .. width * height - 1 :
            /\ i % width >= exMinX /\ i % width <= exMaxX
            /\ i \div width >= exMinY /\ i \div width <= exMaxY
            /\ ~(/\ i % width >= box[1] /\ i % width <= box[3]
                 /\ i \div width >= box[2] /\ i \div width <= box[4])}

\* ringBrightness: the mean luminance over the ring, avgLuminance when the ring is empty
RingBrightness(luminance, avgLuminance, ring, pixelCount) ==
    IF ring # {} THEN SumOver(luminance, ring, pixelCount) \div Cardinality(ring)
    ELSE avgLuminance

\* the box <<minX, minY, maxX, maxY>> grown by 6 % (at least one pixel) on every side
PaddedBox(width, height, raw) ==
    LET padX == Max(1, Round((raw[3] - raw[1] + 1) * 6, 100))
        padY == Max(1, Round((raw[4] - raw[2] + 1) * 6, 100))
    IN  <<clamp(raw[1] - padX, 0, width - 1), clamp(raw[2] - padY, 0, height - 1),
          clamp(raw[3] + padX, 0, width - 1), clamp(raw[4] + padY, 0, height - 1)>>

\* from the subject's raw box and sums to the result
SubjectMeasured(width, height, luminance, avgLuminance, centerXNorm, centerYNorm, raw, selectedCount, subjectLumSum, subjectSalienceSum) ==
    SubjectResult(width, height, centerXNorm, centerYNorm, PaddedBox(width, height, raw),
                  clamp(subjectLumSum \div Max(1, selectedCount), 0, 1000),
                  subjectSalienceSum, selectedCount,
                  RingBrightness(luminance, avgLuminance,
                                 RingPixels(width, height, PaddedBox(width, height, raw)),
                                 width * height))

\* the fallback box: +/- max(8, 20 %) around the salience centroid, clipped to the frame
FallbackBox(width, height, centerXNorm, centerYNorm) ==
    LET fallbackHalfW == Max(8, Round(width * 2, 10))
        fallbackHalfH == Max(8, Round(height * 2, 10))
        cx == Round(centerXNorm * (width - 1), 1000)
        cy == Round(centerYNorm * (height - 1), 1000)
    IN  <<clamp(cx - fallbackHalfW, 0, width - 1), clamp(cy - fallbackHalfH, 0, height - 1),
          clamp(cx + fallbackHalfW, 0, width - 1), clamp(cy + fallbackHalfH, 0, height - 1)>>

\* the bounding box of the selected pixels
SelectedBox(width, Selected) ==
    <<SetMin({i % width : i \in Selected}), SetMin({i \div width : i \in Selected}),
      SetMax({i % width : i \in Selected}), SetMax({i \div width : i \in Selected})>>

\* the fallback branch: the box, its pixel count and its sums replace the selection's
SubjectFallback(width, height, luminance, avgLuminance, energySum, centerXNorm, centerYNorm, fb, count) ==
    SubjectMeasured(width, height, luminance, avgLuminance, centerXNorm, centerYNorm, fb,
                    count,
                    regionLuminanceMean(luminance, width, height, fb[1], fb[2], fb[3],
                                        fb[4]) * count,
                    (energySum * count) \div Max(1, (width - 2) * (height - 2)))

\* selectedCount < max(24, round(pixelCount * 0.012)): too few pixels were selected
TooFewSelected(selectedCount, pixelCount) ==
    selectedCount < Max(24, Round(pixelCount * 12, 1000))

\* from the selection to the result
SubjectSelected(width, height, luminance, salience, avgLuminance, energySum, centerXNorm, centerYNorm, Selected) ==
    IF TooFewSelected(Cardinality(Selected), width * height)
    THEN SubjectFallback(width, height, luminance, avgLuminance, energySum, centerXNorm,
                         centerYNorm,
                         FallbackBox(width, height, centerXNorm, centerYNorm),
                         Max(1, (FallbackBox(width, height, centerXNorm, centerYNorm)[3]
                                 - FallbackBox(width, height, centerXNorm, centerYNorm)[1]
                                 + 1)
                                * (FallbackBox(width, height, centerXNorm, centerYNorm)[4]
                                   - FallbackBox(width, height, centerXNorm, centerYNorm)[2]
                                   + 1)))
    ELSE SubjectMeasured(width, height, luminance, avgLuminance, centerXNorm, centerYNorm,
                         SelectedBox(width, Selected), Cardinality(Selected),
                         SumOver(luminance, Selected, width * height),
                         SumOver(salience, Selected, width * height))

\* the interior pixels with salience[i] >= threshold,
\* threshold = salienceMean + (salienceMax - salienceMean) * 0.35
SelectedPixels(width, height, salience, energySum, salienceMax) ==
    LET interiorCount == Max(1, (width - 2) * (height - 2))
    IN  {i \in 0 .. width * height - 1 :
            /\ i % width >= 1 /\ i % width <= width - 2
            /\ i \div width >= 1 /\ i \div width <= height - 2
            /\ ~(salience[i] * interiorCount * 100
                   < 65 * energySum + 35 * salienceMax * interiorCount)}

\* from the salience totals to the result
SubjectScanned(width, height, luminance, salience, avgLuminance, energySum, salienceMax) ==
    IF energySum <= 0   \* energySum <= 1e-6
    THEN DegenerateContext(avgLuminance)
    ELSE SubjectSelected(
             width, height, luminance, salience, avgLuminance, energySum,
             clamp(MulDiv(Sum([i \in 0 .. width * height - 1 |->
                                   salience[i] * (2 * (i % width) + 1)],
                              0, width * height - 1),
                          1000, 2 * energySum * width), 0, 1000),
             clamp(MulDiv(Sum([i \in 0 .. width * height - 1 |->
                                   salience[i] * (2 * (i \div width) + 1)],
                              0, width * height - 1),
                          1000, 2 * energySum * height), 0, 1000),
             SelectedPixels(width, height, salience, energySum, salienceMax))

\* luminance[i] of every pixel of frame f
LuminanceOf(f) ==
    [i \in 0 .. f.width * f.height - 1 |->
        Luminance(FramePixel(f, i % f.width, i \div f.width))]

\* salience[i]: the energy of every interior pixel, 0 on the border
SalienceOf(luminance, width, height) ==
    [i \in 0 .. width * height - 1 |->
        IF /\ i % width >= 1 /\ i % width <= width - 2
           /\ i \div width >= 1 /\ i \div width <= height - 2
        THEN Energy(luminance, i, width, height) ELSE 0]

\* from the two arrays to the result
SubjectFromArrays(width, height, luminance, salience) ==
    SubjectScanned(width, height, luminance, salience,
                   Sum(luminance, 0, width * height - 1) \div (width * height),
                   Sum(salience, 0, width * height - 1),
                   SetMax({salience[i] : i \in 0 .. width * height - 1}))

\* the pixels the selection loop selects when it is reached (energySum > 1e-6)
SelectedFromSalience(width, height, salience) ==
    IF Sum(salience, 0, width * height - 1) <= 0 THEN {}
    ELSE SelectedPixels(width, height, salience, Sum(salience, 0, width * height - 1),
                        SetMax({salience[i] : i \in 0 .. width * height - 1}))

\* the selection loop's pixels on frame f; empty when the function returns before it
SelectedOf(f) ==
    IF TooSmall(f.width * f.height) THEN {}
    ELSE SelectedFromSalience(f.width, f.height,
                              SalienceOf(LuminanceOf(f), f.width, f.height))

\* estimateSubjectContext(pixels, width, height): <<>> for null, <<context>> otherwise
estimateSubjectContext(f) ==
    IF TooSmall(f.width * f.height) THEN <<>>
    ELSE <<SubjectFromArrays(f.width, f.height, LuminanceOf(f),
                             SalienceOf(LuminanceOf(f), f.width, f.height))>>

-----------------------------------------------------------------------------
(* SpecEstimator: estimateSubjectContext on flat frames of every colour and    *)
(* on frames with a rectangular subject                                        *)

FrameSizes == {<<8, 8>>, <<7, 9>>, <<64, 1>>, <<2, 32>>, <<12, 10>>, <<10, 12>>}

Colours ==
    {<<0, 0, 0>>, <<10, 10, 10>>, <<64, 64, 64>>, <<128, 128, 128>>, <<192, 192, 192>>,
     <<255, 255, 255>>, <<255, 0, 0>>, <<0, 128, 255>>}

FlatFrames ==
    {[width |-> s[1], height |-> s[2], bg |-> c, fg |-> c, rect |-> <<0, 0, -1, -1>>] :
        s \in FrameSizes, c \in Colours}

SubjectFrames ==
    {[width |-> s[1], height |-> s[2], bg |-> <<p[1], p[1], p[1]>>,
      fg |-> <<p[2], p[2], p[2]>>, rect |-> r] :
        s \in {<<8, 8>>, <<12, 10>>, <<10, 12>>},
        p \in {<<0, 255>>, <<255, 0>>, <<64, 192>>, <<192, 128>>, <<255, 64>>, <<128, 10>>},
        r \in {<<3, 3, 6, 6>>, <<1, 1, 2, 2>>, <<5, 2, 7, 7>>, <<0, 0, 7, 3>>}}

\* frames of 48 x 48 pixels (the least side length analyzeSubjectContext reads back): a central
\* square of 6 and 12 pixels, a 2 x 2 speck and an off-centre square, brighter and darker than its
\* surround
MeterFrames ==
    {[width |-> 48, height |-> 48, bg |-> <<p[1], p[1], p[1]>>,
      fg |-> <<p[2], p[2], p[2]>>, rect |-> r] :
        p \in {<<0, 255>>, <<255, 0>>, <<255, 64>>, <<255, 192>>, <<128, 0>>},
        r \in {<<20, 25, 21, 26>>, <<21, 21, 26, 26>>, <<18, 18, 29, 29>>,
               <<8, 10, 15, 17>>}}

Frames == FlatFrames \cup SubjectFrames \cup MeterFrames

\* the meter canvas is read back: frame f is what getImageData returns
ReadFrame(f) ==
    /\ ~analysis.called
    /\ analysis.frame = NoFrame
    /\ analysis' = [called |-> FALSE, frame |-> f]
    /\ UNCHANGED <<rendererVars, poolCall, fragment, app>>

\* analyzeSubjectContext(): the estimator runs on the frame read back
AnalyzeFrame ==
    /\ ~analysis.called
    /\ analysis.frame # NoFrame
    /\ analysis' = [called |-> TRUE, frame |-> analysis.frame,
                    result |-> estimateSubjectContext(analysis.frame),
                    selected |-> SelectedOf(analysis.frame)]
    /\ UNCHANGED <<rendererVars, poolCall, fragment, app>>

\* the analysis result is consumed; the next analysis starts from a new readback
ReleaseFrame ==
    /\ analysis.called
    /\ analysis' = [called |-> FALSE, frame |-> NoFrame]
    /\ UNCHANGED <<rendererVars, poolCall, fragment, app>>

NextEstimator ==
    \/ \E f \in Frames : ReadFrame(f)
    \/ AnalyzeFrame
    \/ ReleaseFrame

SpecEstimator == Constructed(4096) /\ [][NextEstimator]_vars


-----------------------------------------------------------------------------
(* CameraLabApp: the parameter store (CameraParamStore), the sanitisers of     *)
(* stored values and the tables of the parameter controls.  A stored value is  *)
(* <<"number", n>>, <<"string", s>> or <<"boolean", b>>; a stored object is a   *)
(* function from field names to stored values.  A patch is a function from    *)
(* field names to values, the empty function when the sanitiser returns null.  *)

NumericKeys ==
    {"exposureEV", "shutter", "iso", "aperture", "focalLength", "focusDistance",
     "distortion", "vignette", "chromaAberration", "temperature", "tint", "contrast",
     "saturation", "sharpen", "noiseReduction"}

\* PARAM_VALUE_LIMITS: <<min, max>> of every numeric field, in the units of
\* DEFAULT_CAMERA_PARAMS
PARAM_VALUE_LIMITS ==
    [exposureEV |-> <<-3000, 3000>>, shutter |-> <<3, 1600>>, iso |-> <<100, 6400>>,
     aperture |-> <<14, 220>>, focalLength |-> <<18, 120>>, focusDistance |-> <<2, 500>>,
     distortion |-> <<-500, 500>>, vignette |-> <<0, 1000>>,
     chromaAberration |-> <<0, 1000>>, temperature |-> <<-1000, 1000>>,
     tint |-> <<-1000, 1000>>, contrast |-> <<500, 1500>>, saturation |-> <<0, 2000>>,
     sharpen |-> <<0, 1000>>, noiseReduction |-> <<0, 1000>>]

\* PARAM_DIAL_VALUES: the detents of every dial
PARAM_DIAL_VALUES ==
    [exposureEV |-> <<-3000, -2000, -1000, -500, 0, 500, 1000, 2000, 3000>>,
     shutter |-> <<3, 6, 12, 24, 48, 96, 192, 400, 800, 1600>>,
     iso |-> <<100, 200, 400, 800, 1600, 3200, 6400>>,
     aperture |-> <<14, 20, 28, 40, 56, 80, 110, 160, 220>>,
     focalLength |-> <<18, 24, 28, 35, 50, 70, 85, 105, 120>>,
     focusDistance |-> <<2, 3, 5, 8, 12, 16, 25, 40, 60, 100, 150, 250, 500>>,
     distortion |-> <<-500, -300, -150, -50, 0, 50, 150, 300, 500>>,
     vignette |-> <<0, 150, 300, 450, 600, 750, 900, 1000>>,
     chromaAberration |-> <<0, 50, 100, 200, 350, 500, 700, 1000>>,
     temperature |-> <<-1000, -700, -400, -200, 0, 200, 400, 700, 1000>>,
     tint |-> <<-1000, -700, -400, -200, 0, 200, 400, 700, 1000>>,
     contrast |-> <<500, 700, 850, 1000, 1150, 1300, 1500>>,
     saturation |-> <<0, 400, 700, 1000, 1300, 1600, 2000>>,
     sharpen |-> <<0, 150, 300, 450, 600, 800, 1000>>,
     noiseReduction |-> <<0, 150, 300, 450, 600, 800, 1000>>]

\* faulty variant: set() replaces the state and notifies whatever the value
StoreSetAlways(state, key, value) == <<[state EXCEPT ![key] = value], TRUE>>

\* CameraParamStore.set(key, value): <<next state, whether the state object was
\* replaced and emit() ran>>
StoreSet(state, key, value) ==
    IF state[key] = value THEN <<state, FALSE>>
    ELSE <<[state EXCEPT ![key] = value], TRUE>>

\* CameraParamStore.patch(partial)
StorePatch(state, partial) ==
    LET nextState == [k \in DOMAIN state |->
                          IF k \in DOMAIN partial THEN partial[k] ELSE state[k]]
        changed == \E k \in DOMAIN state : k \in DOMAIN partial /\ partial[k] # state[k]
    IN  IF changed THEN <<nextState, TRUE>> ELSE <<state, FALSE>>

\* CameraParamStore.reset(): notifies whether or not anything changed
StoreReset(state) == <<DEFAULT_CAMERA_PARAMS, TRUE>>

\* isFiniteNumber(candidate[key])
isFiniteNumber(candidate, key) == key \in DOMAIN candidate /\ candidate[key][1] = "number"

\* typeof candidate[key] === type
HasType(candidate, key, type) == key \in DOMAIN candidate /\ candidate[key][1] = type

\* parsePreviewScale(raw), raw and result in quarters
parsePreviewScale(raw) == IF raw <= 2 THEN 2 ELSE IF raw <= 3 THEN 3 ELSE 4

\* parseUpscaleStyle(raw): raw is a stored value, or <<"undefined">>
parseUpscaleStyle(raw) == IF raw = <<"string", "enhanced">> THEN "enhanced" ELSE "balanced"

\* the fields toSessionPatch() copies from a stored object
SessionKeys(candidate) ==
    {k \in NumericKeys \cup {"upscaleFactor", "previewScale", "splitPosition"} :
         isFiniteNumber(candidate, k)}
    \cup {k \in {"toneMap"} : HasType(candidate, k, "boolean")}
    \cup {k \in {"upscaleStyle"} : HasType(candidate, k, "string")}
    \cup {k \in {"previewMode"} :
              /\ HasType(candidate, k, "string")
              /\ candidate[k][2] \in {"original", "processed", "split"}}
    \cup {k \in {"histogramMode"} :
              /\ HasType(candidate, k, "string")
              /\ candidate[k][2] \in {"original", "processed", "composite"}}

\* the value toSessionPatch() stores for field k
SessionValue(candidate, k) ==
    IF k \in {"sharpen", "noiseReduction", "splitPosition"}
    THEN clampNumber(candidate[k][2], 0, 1000)
    ELSE IF k = "upscaleFactor" THEN coerceUpscaleFactor(candidate[k][2])
    ELSE IF k = "upscaleStyle" THEN parseUpscaleStyle(candidate[k])
    ELSE IF k = "previewScale" THEN parsePreviewScale(candidate[k][2])
    ELSE candidate[k][2]

\* toSessionPatch(value); nothing stored and a stored non-object are the object
\* without fields, for which the result is the same (null)
toSessionPatch(value) == [k \in SessionKeys(value) |-> SessionValue(value, k)]

PresetRequiredKeys ==
    {"exposureEV", "shutter", "iso", "aperture", "focalLength", "focusDistance",
     "distortion", "vignette", "chromaAberration"}

\* the defaults toPresetPatch() fills in for a field that is not a finite number
PresetFallback ==
    [temperature |-> 0, tint |-> 0, contrast |-> 1000, saturation |-> 1000,
     sharpen |-> DEFAULT_CAMERA_PARAMS.sharpen,
     noiseReduction |-> DEFAULT_CAMERA_PARAMS.noiseReduction]

\* toPresetPatch(value)
toPresetPatch(value) ==
    IF \/ \E k \in PresetRequiredKeys : ~isFiniteNumber(value, k)
       \/ ~HasType(value, "toneMap", "boolean")
    THEN <<>>
    ELSE [k \in PresetRequiredKeys \cup DOMAIN PresetFallback
                \cup {"toneMap", "upscaleStyle"} |->
              IF k \in PresetRequiredKeys \/ k = "toneMap" THEN value[k][2]
              ELSE IF k = "upscaleStyle"
              THEN parseUpscaleStyle(IF k \in DOMAIN value THEN value[k]
                                     ELSE <<"undefined">>)
              ELSE IF isFiniteNumber(value, k) THEN value[k][2]
              ELSE PresetFallback[k]]

\* loadCustomPresets(): the stored entries toPresetPatch() accepts, by name
loadCustomPresets(stored) ==
    [name \in {n \in DOMAIN stored : DOMAIN toPresetPatch(stored[n]) # {}} |->
         toPresetPatch(stored[name])]

\* findNearestValueIndex(values, target): the first index at the least distance
\* (1-based)
findNearestValueIndex(values, target) ==
    CHOOSE i \in 1 .. Len(values) :
        /\ \A j \in 1 .. Len(values) :
               Abs(values[i] - target) <= Abs(values[j] - target)
        /\ \A j \in 1 .. (i - 1) :
               Abs(values[j] - target) > Abs(values[i] - target)

\* stepDialValue(key, delta): the value handed to params.set
stepDialValue(state, key, delta) ==
    LET values == PARAM_DIAL_VALUES[key]
        currentIndex == findNearestValueIndex(values, state[key])
    IN  values[clampNumber(currentIndex + delta, 1, Len(values))]


-----------------------------------------------------------------------------
(* CameraLabApp: subject analysis.  latestSubjectContext and the argument of   *)
(* setSubjectContext are <<>> for null and <<c>> for a context c.              *)

\* toRendererSubjectContext(subject)
toRendererSubjectContext(subject) ==
    LET quality == clampNumber((subject.sharpness * 55 + subject.areaRatio * 45) \div 100,
                               0, 1000)
    IN  [center |-> [x |-> clampNumber(subject.center.x, 0, 1000),
                     y |-> clampNumber(subject.center.y, 0, 1000)],
         box |-> [x |-> clampNumber(subject.box.x, 0, 1000),
                  y |-> clampNumber(subject.box.y, 0, 1000),
                  width |-> clampNumber(subject.box.width, 20, 1000),
                  height |-> clampNumber(subject.box.height, 20, 1000)],
         strength |-> clampNumber(340 + (quality * 66) \div 100, 340, 1000)]

\* what the meter canvas holds after drawImage(target), by the name of the picture:
\* a white square on black, a dark grey square off the centre of a white frame
AppFrame ==
    [square |-> [width |-> 48, height |-> 48, bg |-> <<0, 0, 0>>,
                 fg |-> <<255, 255, 255>>, rect |-> <<18, 18, 29, 29>>],
     shade |-> [width |-> 48, height |-> 48, bg |-> <<255, 255, 255>>,
                fg |-> <<64, 64, 64>>, rect |-> <<8, 10, 15, 17>>]]

\* the pictures the webcam shows, and the pictures of the images that are loaded
AppFrames == {"square", "shade"}
ImageFrames == {"square"}

\* estimateSubjectContext on each of these frames (<<>> for null, <<context>> otherwise)
SubjectTable ==
    [square |-> estimateSubjectContext(AppFrame.square),
     shade |-> estimateSubjectContext(AppFrame.shade)]

\* analyzeSubjectContext(): target is <<>> when no source is attached (no dimensions,
\* no target) and <<f>> when the source shows frame f; readable is FALSE when the
\* meter canvas hands out no 2D context
analyzeSubjectContext(target, readable) ==
    IF target = <<>> \/ ~readable THEN <<>> ELSE subjects[target[1]]

\* faulty variant: a forced call is rate-limited like any other
updateSubjectContextForRendererNoForce(force, t, last, latest, ctx, target, readable) ==
    IF t - last < SUBJECT_ANALYSIS_INTERVAL_MS
    THEN [analysed |-> FALSE, last |-> last, latest |-> latest,
          ctx |-> IF latest # <<>>
                  THEN setSubjectContext(<<toRendererSubjectContext(latest[1])>>)
                  ELSE ctx]
    ELSE LET nextContext == analyzeSubjectContext(target, readable)
         IN  [analysed |-> TRUE, last |-> t, latest |-> nextContext,
              ctx |-> setSubjectContext(
                          IF nextContext # <<>>
                          THEN <<toRendererSubjectContext(nextContext[1])>>
                          ELSE <<>>)]

\* faulty variant: an analysis without a result leaves the renderer's context alone
updateSubjectContextForRendererKeep(force, t, last, latest, ctx, target, readable) ==
    IF ~force /\ t - last < SUBJECT_ANALYSIS_INTERVAL_MS
    THEN [analysed |-> FALSE, last |-> last, latest |-> latest,
          ctx |-> IF latest # <<>>
                  THEN setSubjectContext(<<toRendererSubjectContext(latest[1])>>)
                  ELSE ctx]
    ELSE LET nextContext == analyzeSubjectContext(target, readable)
         IN  [analysed |-> TRUE, last |-> t, latest |-> nextContext,
              ctx |-> IF nextContext # <<>>
                      THEN setSubjectContext(<<toRendererSubjectContext(nextContext[1])>>)
                      ELSE ctx]

\* updateSubjectContextForRenderer(force) at time t: whether the analysis ran, and the
\* lastSubjectAnalysisMs, latestSubjectContext and renderer subjectContext it leaves
updateSubjectContextForRenderer(force, t, last, latest, ctx, target, readable) ==
    IF ~force /\ t - last < SUBJECT_ANALYSIS_INTERVAL_MS
    THEN [analysed |-> FALSE, last |-> last, latest |-> latest,
          ctx |-> IF latest # <<>>
                  THEN setSubjectContext(<<toRendererSubjectContext(latest[1])>>)
                  ELSE ctx]
    ELSE LET nextContext == analyzeSubjectContext(target, readable)
         IN  [analysed |-> TRUE, last |-> t, latest |-> nextContext,
              ctx |-> setSubjectContext(
                          IF nextContext # <<>>
                          THEN <<toRendererSubjectContext(nextContext[1])>>
                          ELSE <<>>)]

\* the target of analyzeSubjectContext(): the webcam video (showing frame f) in webcam
\* mode, the loaded image otherwise
AnalysisTarget(a, f) ==
    IF a.sourceMode = "webcam"
    THEN (IF a.webcamVideo THEN <<f>> ELSE <<>>)
    ELSE a.loadedImage

\* stopWebcamRenderLoop(): the callback the handle names is cancelled
stopWebcamRenderLoop(a) ==
    [a EXCEPT !.pendingFrames = IF a.webcamFrameHandle THEN @ - 1 ELSE @,
              !.webcamFrameHandle = FALSE]

\* faulty variant: the render loop is left running
disableWebcamKeepLoop(a) ==
    [a EXCEPT !.webcamVideo = FALSE,
              !.streams = @ \ {a.webcamStream}, !.webcamStream = 0,
              !.lastSubjectAnalysisMs = NegInfinity, !.disabledSince = TRUE]

\* disableWebcam(): the render loop stops, the video is detached, the tracks of
\* this.webcamStream are stopped and the analysis interval is forgotten
disableWebcam(a) ==
    [stopWebcamRenderLoop(a)
         EXCEPT !.webcamVideo = FALSE,
                !.streams = @ \ {a.webcamStream}, !.webcamStream = 0,
                !.lastSubjectAnalysisMs = NegInfinity, !.disabledSince = TRUE]

\* the app after a call of updateSubjectContextForRenderer with outcome u
AfterUpdate(a, u, t) ==
    [a EXCEPT !.lastSubjectAnalysisMs = u.last, !.latestSubjectContext = u.latest,
              !.analysedAt = IF u.analysed THEN t ELSE @,
              !.disabledSince = IF u.analysed THEN FALSE ELSE @]

\* the record of a handler that called updateSubjectContextForRenderer with outcome u
UpdateOp(kind, force, u, frames) ==
    [kind |-> kind, update |-> IF force THEN "forced" ELSE "nonforced",
     analysed |-> u.analysed, emits |-> 0, frames |-> frames]


-----------------------------------------------------------------------------
(* CameraLabApp: handlers.  A handler runs to completion before the next one   *)
(* starts; a handler that awaits is split at the await.  glLog holds the       *)
(* passes of every render() the handler made, in order.                         *)

\* the floors of the resolution governor are exact on the sources of the app model
NoFpError == <<0, 0, 0, 0>>

\* <<naturalWidth, naturalHeight>> of a loaded image, <<videoWidth, videoHeight>> of
\* the webcam
ImageSize == <<640, 480>>
VideoSize == <<1280, 720>>

\* the sizes of the renderer as they are
SizesNow ==
    [sourceWidth |-> sourceWidth, sourceHeight |-> sourceHeight,
     processWidth |-> processWidth, processHeight |-> processHeight,
     pingPong |-> pingPong]

\* the sizes renderer.setParams(p) leaves, from sizes e
AfterSetParams(e, p) ==
    LET u == updateProcessSize(e.sourceWidth, e.sourceHeight, p, e.processWidth,
                               e.processHeight, e.pingPong, maxProcessDimension,
                               NoFpError)
    IN  [sourceWidth |-> e.sourceWidth, sourceHeight |-> e.sourceHeight,
         processWidth |-> u.processWidth, processHeight |-> u.processHeight,
         pingPong |-> u.pingPong]

\* the sizes setImage / setVideoSource / updateVideoFrame leave for a source of this size
AfterUpload(size) ==
    ensureSourceSize(size[1], size[2], sourceWidth, sourceHeight, sourceTexture, params,
                     processWidth, processHeight, pingPong, maxProcessDimension,
                     NoFpError)

\* the passes of a sequence of render() calls, each with the parameters and sizes it
\* finds; due: the first of them recomputes the histogram
RECURSIVE RunLog(_, _)
RunLog(runs, due) ==
    IF runs = <<>> THEN <<>>
    ELSE LET r == Head(runs)
             passes == RenderPasses(r.e.processWidth, r.e.processHeight, canvas, r.p)
         IN  (IF due
              THEN Append(passes,
                          drawComposite("Histogram", "histogram",
                                        <<HISTOGRAM_SIZE, HISTOGRAM_SIZE>>,
                                        histogramPreviewMode(r.p)))
              ELSE passes) \o RunLog(Tail(runs), FALSE)

\* no call of captureSnapshotCanvas()
NoCapture == [log |-> <<>>, result |-> NoSnapshot]

\* what a handler leaves in the renderer: sizes e, source texture tex, parameters p,
\* subject context ctx, after the passes of a captureSnapshotCanvas() call (capture)
\* and then the render() calls runs (each [p, e])
AppRunWith(e, tex, p, ctx, runs, capture) ==
    LET due == runs # <<>> /\ HistogramDue(now, lastHistogramUpdateMs)
    IN  /\ frameIndex + Len(runs) <= MaxAppFrames
        /\ sourceWidth' = e.sourceWidth
        /\ sourceHeight' = e.sourceHeight
        /\ sourceTexture' = tex
        /\ processWidth' = e.processWidth
        /\ processHeight' = e.processHeight
        /\ pingPong' = e.pingPong
        /\ params' = p
        /\ subjectContext' = ctx
        /\ frameIndex' = frameIndex + Len(runs)
        /\ glLog' = capture.log \o RunLog(runs, due)
        /\ IF due
           THEN /\ lastHistogramUpdateMs' = now
                /\ histogramPixels' = "flat"
                /\ histogram' = buildHistogramBins(histogram, "flat")
                /\ histogramParams' = Head(runs).p
           ELSE UNCHANGED histogramVars
        /\ snapshotResult' = capture.result
        /\ UNCHANGED <<deviceVars, canvas, now, poolCall, fragment, analysis>>

\* a handler that does not call captureSnapshotCanvas()
AppRun(e, tex, p, ctx, runs) == AppRunWith(e, tex, p, ctx, runs, NoCapture)

\* one render() with the renderer's parameters on sizes e
OneRun(e) == <<[p |-> params, e |-> e]>>

\* faulty variant: the subscriber renders whatever the source is
SubscriberRendersAlways(sourceMode, webcamVideo) == TRUE

\* the condition under which the parameter subscriber calls render()
SubscriberRenders(sourceMode, webcamVideo) == sourceMode # "webcam" \/ ~webcamVideo

\* the sizes after the subscriber ran setParams for every notification of steps
RECURSIVE AfterNotifications(_, _)
AfterNotifications(e, steps) ==
    IF steps = <<>> THEN e
    ELSE AfterNotifications(IF Head(steps)[2] THEN AfterSetParams(e, Head(steps)[1])
                            ELSE e, Tail(steps))

\* the render() calls the subscriber makes for the notifications of steps
RECURSIVE SubscriberRuns(_, _, _)
SubscriberRuns(e, steps, renders) ==
    IF steps = <<>> THEN <<>>
    ELSE IF Head(steps)[2]
    THEN LET e1 == AfterSetParams(e, Head(steps)[1])
         IN  (IF renders THEN <<[p |-> Head(steps)[1], e |-> e1]>> ELSE <<>>)
             \o SubscriberRuns(e1, Tail(steps), renders)
    ELSE SubscriberRuns(e, Tail(steps), renders)

\* a handler that changes parameters: steps are the results <<state, notified>> of its
\* calls of the store, in order; the subscriber runs once per notification
ParamChange(kind, a, steps) ==
    LET notified == SelectSeq(steps, LAMBDA s : s[2])
        renders == SubscriberRenders(a.sourceMode, a.webcamVideo)
    IN  /\ app' = [a EXCEPT !.state = steps[Len(steps)][1],
                            !.op = [NoOp EXCEPT !.kind = kind,
                                                !.emits = Len(notified)]]
        /\ AppRun(AfterNotifications(SizesNow, steps), sourceTexture,
                  IF notified = <<>> THEN params ELSE notified[Len(notified)][1],
                  subjectContext, SubscriberRuns(SizesNow, steps, renders))

\* mount(): loadCustomPresets(), restoreSessionState(), params.subscribe (the
\* subscriber runs once with the restored state), renderer.resize(), renderer.render()
Mount(session, presets) ==
    LET patch == toSessionPatch(session)
        state == IF DOMAIN patch # {} THEN StorePatch(app.state, patch)[1] ELSE app.state
        e == AfterSetParams(SizesNow, state)
        r == [p |-> state, e |-> e]
    IN  /\ ~app.mounted
        /\ ~app.destroyed
        /\ app' = [app EXCEPT !.mounted = TRUE, !.state = state,
                              !.listeners = @ \cup {"subscriber"},
                              !.customPresets = loadCustomPresets(presets),
                              !.op = [NoOp EXCEPT !.kind = "mount"]]
        /\ AppRun(e, sourceTexture, state, subjectContext,
                  IF SubscriberRenders(app.sourceMode, app.webcamVideo)
                  THEN <<r, r, r>> ELSE <<r, r>>)

\* the "input" listener of a slider whose toValue is the identity
SliderInput(key, value) ==
    /\ app.mounted
    /\ ParamChange("slider", app, <<StoreSet(app.state, key, value)>>)

\* a dial is stepped by delta detents
DialStep(key, delta) ==
    /\ app.mounted
    /\ ParamChange("dial", app,
                   <<StoreSet(app.state, key, stepDialValue(app.state, key, delta))>>)

\* applyPresetSelection(selection) for the custom preset of this name
ApplyPreset(name) ==
    /\ app.mounted
    /\ IF name \in DOMAIN app.customPresets
       THEN LET preset == app.customPresets[name]
                partial == [k \in DOMAIN preset \cup {"focalLength"} |->
                                IF k = "focalLength" THEN app.state.focalLength
                                ELSE preset[k]]
            IN  ParamChange("preset", app, <<StorePatch(app.state, partial)>>)
       ELSE ParamChange("preset", app, <<<<app.state, FALSE>>>>)

\* the click listener of the Reset button
ResetButton ==
    /\ app.mounted
    /\ ParamChange("reset", app, <<StoreReset(app.state)>>)

\* onKeyDown(event) for event.code Space, KeyS, KeyR and any other key
KeyDown(code) ==
    /\ app.mounted
    /\ IF code = "Space"
       THEN ParamChange("key", app,
                <<StoreSet(app.state, "previewMode",
                           IF app.state.previewMode = "original" THEN "processed"
                           ELSE "original")>>)
       ELSE IF code = "KeyS"
       THEN ParamChange("key", app,
                <<StoreSet(app.state, "previewMode",
                           IF app.state.previewMode = "split" THEN "processed"
                           ELSE "split")>>)
       ELSE IF code = "KeyR"
       THEN ParamChange("reset", app, <<StoreReset(app.state)>>)
       ELSE ParamChange("key", app, <<<<app.state, FALSE>>>>)

\* loadIntoRenderer(file) after the image has been decoded to frame f
LoadImage(f, readable) ==
    LET a == [disableWebcam([app EXCEPT !.sourceSwitchToken = @ + 1])
                  EXCEPT !.sourceMode = "image", !.loadedImage = <<f>>]
        e == AfterUpload(ImageSize)
        u == updateSubjectContextForRenderer(TRUE, now, a.lastSubjectAnalysisMs,
                                             a.latestSubjectContext, subjectContext,
                                             AnalysisTarget(a, f), readable)
    IN  /\ app.mounted
        /\ app.sourceSwitchToken < MaxSwitches
        /\ app' = [AfterUpdate(a, u, now) EXCEPT !.op = UpdateOp("load", TRUE, u, 0)]
        /\ AppRun(e, "image", params, u.ctx, OneRun(e))

\* setSourceMode(mode), up to its await when mode is "webcam"
SetSourceMode(mode, readable) ==
    /\ app.mounted
    /\ IF mode = app.sourceMode
       THEN /\ app' = [app EXCEPT !.op = [NoOp EXCEPT !.kind = "source"]]
            /\ AppRun(SizesNow, sourceTexture, params, subjectContext, <<>>)
       ELSE /\ app.sourceSwitchToken < MaxSwitches
            /\ IF mode = "image"
               THEN LET a == [disableWebcam([app EXCEPT !.sourceSwitchToken = @ + 1])
                                  EXCEPT !.sourceMode = "image"]
                        u == updateSubjectContextForRenderer(
                                 TRUE, now, a.lastSubjectAnalysisMs,
                                 a.latestSubjectContext, subjectContext,
                                 a.loadedImage, readable)
                    IN  /\ app' = [AfterUpdate(a, u, now)
                                       EXCEPT !.op = UpdateOp("source", TRUE, u, 0)]
                        /\ AppRun(SizesNow, sourceTexture, params, u.ctx,
                                  OneRun(SizesNow))
               ELSE /\ app' = [app EXCEPT
                                   !.sourceMode = "webcam",
                                   !.sourceSwitchToken = @ + 1,
                                   !.webcamRequests = @ \cup {app.sourceSwitchToken + 1},
                                   !.latestSubjectContext = <<>>,
                                   !.op = [NoOp EXCEPT !.kind = "source"]]
                    /\ AppRun(SizesNow, sourceTexture, params, setSubjectContext(<<>>),
                              <<>>)

\* startWebcam() of the request with this token resolves with a stream and a video
\* showing frame f (the stream and the video are assigned and handed to the renderer
\* before setSourceMode looks at its token): the rest of setSourceMode("webcam"), and
\* the first frame of the render loop.  After destroy() there is no renderer.
WebcamStarted(token, f, readable) ==
    LET a == [app EXCEPT !.webcamRequests = @ \ {token}, !.webcamVideo = TRUE,
                         !.webcamStream = token, !.streams = @ \cup {token}]
        stale == token # a.sourceSwitchToken \/ a.sourceMode # "webcam"
        e == AfterUpload(VideoSize)
        u == updateSubjectContextForRenderer(FALSE, now, a.lastSubjectAnalysisMs,
                                             a.latestSubjectContext, subjectContext,
                                             AnalysisTarget(a, f), readable)
    IN  /\ app.mounted \/ app.destroyed
        /\ token \in app.webcamRequests
        /\ IF app.destroyed
           THEN /\ app' = [(IF stale THEN disableWebcam(a) ELSE stopWebcamRenderLoop(a))
                               EXCEPT !.op = [NoOp EXCEPT !.kind = IF stale THEN "stale"
                                                                  ELSE "frame"]]
                /\ AppRun(SizesNow, sourceTexture, params, subjectContext, <<>>)
           ELSE IF stale
           THEN /\ app' = [disableWebcam(a) EXCEPT !.op = [NoOp EXCEPT !.kind = "stale"]]
                /\ AppRun(e, "video", params, subjectContext, <<>>)
           ELSE /\ app' = [AfterUpdate(stopWebcamRenderLoop(a), u, now)
                               EXCEPT !.webcamFrameHandle = TRUE,
                                      !.pendingFrames = @ + 1,
                                      !.op = UpdateOp("frame", FALSE, u, 1)]
                /\ AppRun(e, "video", params, u.ctx, OneRun(e))

\* startWebcam() of the request with this token rejects: the catch of setSourceMode
WebcamFailed(token) ==
    LET a == [app EXCEPT !.webcamRequests = @ \ {token}]
    IN  /\ app.mounted \/ app.destroyed
        /\ token \in app.webcamRequests
        /\ app' = [(IF token # a.sourceSwitchToken \/ a.sourceMode # "webcam" THEN a
                    ELSE [disableWebcam(a) EXCEPT !.sourceMode = "image"])
                       EXCEPT !.op = [NoOp EXCEPT !.kind = "webcam"]]
        /\ AppRun(SizesNow, sourceTexture, params, subjectContext, <<>>)

\* renderFrame(), the requestAnimationFrame callback of the webcam loop; the video
\* shows frame f
AnimationFrame(f, readable) ==
    LET e == AfterUpload(VideoSize)
        u == updateSubjectContextForRenderer(FALSE, now, app.lastSubjectAnalysisMs,
                                             app.latestSubjectContext, subjectContext,
                                             AnalysisTarget(app, f), readable)
    IN  /\ app.mounted
        /\ app.webcamFrameHandle
        /\ IF ~app.webcamVideo \/ app.sourceMode # "webcam"
           THEN /\ app' = [app EXCEPT !.webcamFrameHandle = FALSE,
                                      !.pendingFrames = @ - 1,
                                      !.op = [NoOp EXCEPT !.kind = "frame"]]
                /\ AppRun(SizesNow, sourceTexture, params, subjectContext, <<>>)
           ELSE /\ app' = [AfterUpdate(app, u, now)
                               EXCEPT !.op = UpdateOp("frame", FALSE, u, 1)]
                /\ AppRun(e, "video", params, u.ctx, OneRun(e))

\* sanitizeAiSuggestedPatch(value): every numeric field clamped to PARAM_VALUE_LIMITS
sanitizeAiSuggestedPatch(value) ==
    [k \in DOMAIN value |->
         IF k \in NumericKeys
         THEN clampNumber(value[k], PARAM_VALUE_LIMITS[k][1], PARAM_VALUE_LIMITS[k][2])
         ELSE IF k = "upscaleFactor" THEN coerceUpscaleFactor(value[k])
         ELSE value[k]]

\* applyAiPrompt() up to its await: the subject is analysed for the request; the video
\* shows frame f
AiPrompt(f, readable) ==
    LET u == updateSubjectContextForRenderer(TRUE, now, app.lastSubjectAnalysisMs,
                                             app.latestSubjectContext, subjectContext,
                                             AnalysisTarget(app, f), readable)
    IN  /\ app.mounted
        /\ IF app.aiRequestInFlight
           THEN /\ app' = [app EXCEPT !.op = [NoOp EXCEPT !.kind = "ai"]]
                /\ AppRun(SizesNow, sourceTexture, params, subjectContext, <<>>)
           ELSE /\ app' = [AfterUpdate(app, u, now)
                               EXCEPT !.aiRequestInFlight = TRUE,
                                      !.op = UpdateOp("ai", TRUE, u, 0)]
                /\ AppRun(SizesNow, sourceTexture, params, u.ctx, <<>>)

\* applyAiPrompt() after its await.  candidate is the patch of the response (numeric
\* fields only), the empty function when the request failed or brought no patch; the
\* prompt guards (ensureVisibleAiPatch, enforceAiPatchSafety,
\* filterChangedAiPatchFields) are taken to keep the sanitised patch as it is
AiResponse(candidate) ==
    LET patch == sanitizeAiSuggestedPatch(candidate)
        first == IF app.state.previewMode = "original"
                 THEN StoreSet(app.state, "previewMode", "processed")
                 ELSE <<app.state, FALSE>>
        a == [app EXCEPT !.aiRequestInFlight = FALSE]
    IN  /\ app.mounted
        /\ app.aiRequestInFlight
        /\ IF DOMAIN patch = {}
           THEN ParamChange("ai", a, <<<<app.state, FALSE>>>>)
           ELSE ParamChange("ai", a, <<first, StorePatch(first[1], patch)>>)

\* onResize(): renderer.resize(), which renders
AppResize ==
    /\ app.mounted
    /\ app' = [app EXCEPT !.op = [NoOp EXCEPT !.kind = "resize"]]
    /\ AppRun(SizesNow, sourceTexture, params, subjectContext, OneRun(SizesNow))

\* onPageHide(): disableWebcam()
PageHide ==
    /\ app.mounted
    /\ app' = [disableWebcam(app) EXCEPT !.op = [NoOp EXCEPT !.kind = "pagehide"]]
    /\ AppRun(SizesNow, sourceTexture, params, subjectContext, <<>>)

\* destroy(): disableWebcam(), the subscriber is removed, the renderer is disposed of
\* and the handlers of the app return at once from then on
Destroy ==
    /\ app.mounted
    /\ app' = [disableWebcam(app) EXCEPT !.mounted = FALSE, !.destroyed = TRUE,
                                         !.listeners = @ \ {"subscriber"},
                                         !.op = [NoOp EXCEPT !.kind = "destroy"]]
    /\ AppRun(SizesNow, sourceTexture, params, subjectContext, <<>>)

\* the clock of the app advances by d milliseconds
AppTick(d) ==
    /\ now + d <= MaxAppNow
    /\ now' = now + d
    /\ glLog' = <<>>
    /\ snapshotResult' = NoSnapshot
    /\ app' = [app EXCEPT !.op = NoOp]
    /\ UNCHANGED <<deviceVars, sourceVars, sizeVars, histogramVars, params, frameIndex,
                   subjectContext, canvas, poolCall, fragment, analysis>>

-----------------------------------------------------------------------------
(* SpecParams: the app is mounted on stored values of every kind, and its      *)
(* parameters are changed by sliders, dials, presets, keys and Reset            *)

\* what localStorage holds for the session: nothing, in-range values, values outside
\* the ranges, values of the wrong type
StoredSessions ==
    <<<<>>,
      [iso |-> <<"number", 800>>, sharpen |-> <<"number", 300>>,
       previewMode |-> <<"string", "split">>],
      [iso |-> <<"number", 999999>>, exposureEV |-> <<"number", -9000>>,
       sharpen |-> <<"number", 5000>>, splitPosition |-> <<"number", 2000>>,
       upscaleFactor |-> <<"number", 19>>, previewScale |-> <<"number", 1>>],
      [iso |-> <<"string", "high">>, toneMap |-> <<"number", 1>>,
       previewMode |-> <<"string", "none">>]>>

\* a stored preset with this iso and sharpen
StoredPreset(iso, sharpen) ==
    [exposureEV |-> <<"number", 0>>, shutter |-> <<"number", 96>>,
     iso |-> <<"number", iso>>, aperture |-> <<"number", 56>>,
     focalLength |-> <<"number", 50>>, focusDistance |-> <<"number", 40>>,
     distortion |-> <<"number", 0>>, vignette |-> <<"number", 0>>,
     chromaAberration |-> <<"number", 0>>, sharpen |-> <<"number", sharpen>>,
     toneMap |-> <<"boolean", TRUE>>]

\* what localStorage holds for the custom presets: nothing, or an in-range preset, one
\* outside the ranges and one that lacks required fields
StoredPresets ==
    <<<<>>,
      [day |-> StoredPreset(200, 150), wild |-> StoredPreset(-5, 7000),
       broken |-> [iso |-> <<"number", 100>>]]>>

PresetNames == {"day", "wild", "broken"}

SliderKeys == {"iso", "sharpen"}

\* positions of a slider between its min and max
SliderPositions(key) ==
    {PARAM_VALUE_LIMITS[key][1], PARAM_VALUE_LIMITS[key][2]}

KeyCodes == {"Space", "KeyS", "KeyR", "KeyA"}

NextParams ==
    \/ \E i \in DOMAIN StoredSessions, j \in DOMAIN StoredPresets :
           Mount(StoredSessions[i], StoredPresets[j])
    \/ \E key \in SliderKeys : \E value \in SliderPositions(key) : SliderInput(key, value)
    \/ \E key \in SliderKeys, delta \in {-1, 1} : DialStep(key, delta)
    \/ \E name \in PresetNames : ApplyPreset(name)
    \/ \E code \in KeyCodes : KeyDown(code)
    \/ ResetButton

SpecParams == ConstructedOn(4096, SubjectTable) /\ [][NextParams]_vars

-----------------------------------------------------------------------------
(* SpecApp: image loads, source switches, webcam starts that succeed, fail and *)
(* overtake each other, webcam frames, AI prompts and parameter changes on a   *)
(* running clock                                                                *)

AppTickSteps == {160}

AiCandidates == <<<<>>, [exposureEV |-> 9000]>>

NextApp ==
    \/ Mount(<<>>, <<>>)
    \/ KeyDown("Space")
    \/ \E f \in ImageFrames, readable \in BOOLEAN : LoadImage(f, readable)
    \/ \E mode \in {"image", "webcam"} : SetSourceMode(mode, TRUE)
    \/ \E token \in 1 .. MaxSwitches, f \in AppFrames : WebcamStarted(token, f, TRUE)
    \/ \E token \in 1 .. MaxSwitches : WebcamFailed(token)
    \/ \E f \in AppFrames : AnimationFrame(f, TRUE)
    \/ \E f \in AppFrames : AiPrompt(f, TRUE)
    \/ \E i \in DOMAIN AiCandidates : AiResponse(AiCandidates[i])
    \/ AppResize
    \/ PageHide
    \/ Destroy
    \/ \E d \in AppTickSteps : AppTick(d)

SpecApp == ConstructedOn(4096, SubjectTable) /\ [][NextApp]_vars


-----------------------------------------------------------------------------
(* SpecStore: a CameraParamStore on its own, with listeners that come and go.  *)
(* A listener reads the state it is handed and does not call the store.        *)

Listeners == {"subscriber", "panel"}

\* emit(): the number of calls of every listener, in the order of the Set
emit(listeners) == [l \in Listeners |-> IF l \in listeners THEN 1 ELSE 0]

NoCalls == [l \in Listeners |-> 0]

\* the record of a call of the store: the operation and its arguments, whether
\* this.state was assigned a new object, how often each listener was called and the
\* state the listeners were handed (<<>> when none was called)
StoreOp(kind, args, result, listeners) ==
    [kind |-> kind, args |-> args, replaced |-> result[2],
     calls |-> IF result[2] THEN emit(listeners) ELSE NoCalls,
     handed |-> IF result[2] THEN <<result[1]>> ELSE <<>>]

\* the store after a call with this result
StoreCall(kind, args, result) ==
    /\ app' = [app EXCEPT !.state = result[1],
                          !.op = StoreOp(kind, args, result, app.listeners)]
    /\ glLog' = <<>>
    /\ snapshotResult' = NoSnapshot
    /\ UNCHANGED <<deviceVars, sourceVars, sizeVars, histogramVars, params, frameIndex,
                   subjectContext, canvas, now, poolCall, fragment, analysis>>

\* store.set(key, value)
StoreSetCall(key, value) ==
    StoreCall("set", <<key, value>>, StoreSet(app.state, key, value))

\* store.patch(partial)
StorePatchCall(partial) ==
    StoreCall("patch", <<partial>>, StorePatch(app.state, partial))

\* store.reset()
StoreResetCall ==
    StoreCall("reset", <<>>, StoreReset(app.state))

\* store.subscribe(listener): the listener is added and called with the state
StoreSubscribe(l) ==
    /\ app' = [app EXCEPT !.listeners = @ \cup {l},
                          !.op = [kind |-> "subscribe", args |-> <<l>>,
                                  replaced |-> FALSE,
                                  calls |-> [NoCalls EXCEPT ![l] = 1],
                                  handed |-> <<app.state>>]]
    /\ glLog' = <<>>
    /\ snapshotResult' = NoSnapshot
    /\ UNCHANGED <<deviceVars, sourceVars, sizeVars, histogramVars, params, frameIndex,
                   subjectContext, canvas, now, poolCall, fragment, analysis>>

\* the function subscribe() returned is called
StoreUnsubscribe(l) ==
    /\ app' = [app EXCEPT !.listeners = @ \ {l},
                          !.op = [kind |-> "unsubscribe", args |-> <<l>>,
                                  replaced |-> FALSE, calls |-> NoCalls,
                                  handed |-> <<>>]]
    /\ glLog' = <<>>
    /\ snapshotResult' = NoSnapshot
    /\ UNCHANGED <<deviceVars, sourceVars, sizeVars, histogramVars, params, frameIndex,
                   subjectContext, canvas, now, poolCall, fragment, analysis>>

\* values handed to set(): the current value and others
StoreValues ==
    [iso |-> {100, 800}, previewMode |-> {"processed", "split"},
     toneMap |-> {FALSE, TRUE}]

\* objects handed to patch(): no field, fields that may equal the state's, the defaults
StorePartials ==
    <<<<>>,
      [iso |-> 100],
      [iso |-> 800, toneMap |-> FALSE],
      [previewMode |-> "split", iso |-> 800],
      DEFAULT_CAMERA_PARAMS>>

NextStore ==
    \/ \E l \in Listeners : StoreSubscribe(l)
    \/ \E l \in Listeners : StoreUnsubscribe(l)
    \/ \E key \in DOMAIN StoreValues : \E value \in StoreValues[key] :
           StoreSetCall(key, value)
    \/ \E i \in DOMAIN StorePartials : StorePatchCall(StorePartials[i])
    \/ StoreResetCall

SpecStore == ConstructedOn(4096, <<>>) /\ [][NextStore]_vars


-----------------------------------------------------------------------------
(* enforceAiPatchSafety.  The prompt is the record of what the keyword tests   *)
(* (shouldAllow..., shouldPreferLowNoise) say of it; values in thousandths.    *)

\* the first guard of exposureEV: within deltaLimit of the current value, then
\* within [-1.8, 1.6]
ExposureDeltaLimited(exposureEV, current, allowAggressiveExposure) ==
    LET deltaLimit == IF allowAggressiveExposure THEN 900 ELSE 350
        limited == clamp(exposureEV, current - deltaLimit, current + deltaLimit)
    IN  clamp(limited, -1800, 1600)

\* the guard by the brightness of the subject (subject: subjectContext, <<>> for null)
ExposureForSubject(exposureEV, current, allowAggressiveExposure, subject) ==
    IF subject = <<>> THEN exposureEV
    ELSE IF subject[1].brightness >= 720
    THEN Min(exposureEV, current + 100)
    ELSE IF subject[1].brightness <= 200 /\ ~allowAggressiveExposure
    THEN Min(Max(exposureEV, current - 100), current + 450)
    ELSE exposureEV

\* the guard of a patch that switches tone mapping on
ExposureForToneMap(exposureEV, current, allowAggressiveExposure, toneMap) ==
    IF ~allowAggressiveExposure /\ toneMap THEN Min(exposureEV, current + 250)
    ELSE exposureEV

\* the exposureEV enforceAiPatchSafety leaves for a patch that has one
GuardedExposure(patch, prompt, current, subject) ==
    ExposureForToneMap(
        ExposureForSubject(
            ExposureDeltaLimited(patch.exposureEV, current.exposureEV,
                                 prompt.allowAggressiveExposure),
            current.exposureEV, prompt.allowAggressiveExposure, subject),
        current.exposureEV, prompt.allowAggressiveExposure,
        "toneMap" \in DOMAIN patch /\ patch.toneMap = TRUE)

\* the fields enforceAiPatchSafety deletes
GuardDeleted(prompt) ==
    (IF prompt.allowLens THEN {} ELSE {"focalLength", "focusDistance"})
    \cup (IF prompt.allowDof THEN {} ELSE {"aperture", "focusDistance"})
    \cup (IF prompt.allowShutter THEN {} ELSE {"shutter"})

\* the upscaleStyle enforceAiPatchSafety leaves for a patch that has one
GuardedStyle(patch, prompt) ==
    IF patch.upscaleStyle = "enhanced"
       /\ ~(prompt.allowEnhanced /\ ~prompt.preferLowNoise)
    THEN "balanced" ELSE patch.upscaleStyle

\* enforceAiPatchSafety(patch, prompt, current, subjectContext) on a sanitised patch
enforceAiPatchSafety(patch, prompt, current, subject) ==
    LET kept == DOMAIN patch \ GuardDeleted(prompt)
        hasExposure == "exposureEV" \in kept
        exposureEV == GuardedExposure(patch, prompt, current, subject)
        capsContrast == hasExposure /\ exposureEV > current.exposureEV + 300
        enhanced == "upscaleStyle" \in kept /\ GuardedStyle(patch, prompt) = "enhanced"
    IN  [k \in kept \cup (IF capsContrast THEN {"contrast"} ELSE {})
                 \cup (IF enhanced THEN {"noiseReduction"} ELSE {}) |->
             IF k = "exposureEV" THEN exposureEV
             ELSE IF k = "contrast" /\ capsContrast
             THEN Min(IF k \in kept THEN patch[k] ELSE current.contrast, 1180)
             ELSE IF k = "upscaleStyle" THEN GuardedStyle(patch, prompt)
             ELSE IF k = "noiseReduction" /\ enhanced
             THEN clamp(Max(IF k \in kept THEN patch[k] ELSE current.noiseReduction,
                            380), 0, 1000)
             ELSE patch[k]]

\* applyAiPrompt() hands a sanitised patch to enforceAiPatchSafety with the state of
\* the store; the record keeps the arguments and the result
AiGuard(patch, prompt, subject) ==
    /\ app.mounted
    /\ app' = [app EXCEPT !.op =
                   [kind |-> "guard", patch |-> patch, prompt |-> prompt,
                    current |-> app.state, subjectContext |-> subject,
                    result |-> enforceAiPatchSafety(patch, prompt, app.state,
                                                    subject)]]
    /\ glLog' = <<>>
    /\ snapshotResult' = NoSnapshot
    /\ UNCHANGED <<deviceVars, sourceVars, sizeVars, histogramVars, params, frameIndex,
                   subjectContext, canvas, now, poolCall, fragment, analysis>>

-----------------------------------------------------------------------------
(* SpecAiGuard: the exposure slider is moved over its range and patches of the *)
(* AI are guarded for prompts and subjects of every kind                       *)

\* positions of the exposure slider: both ends, the middle, values between
ExposurePositions == {-3000, -1500, 0, 1300, 3000}

\* sanitised patches: exposure at and beyond the ends of its range, with tone mapping,
\* with lens fields, with the enhanced style, without exposure
GuardPatches ==
    <<[exposureEV |-> 3000], [exposureEV |-> -3000], [exposureEV |-> 200],
      [exposureEV |-> 1000, toneMap |-> TRUE],
      [exposureEV |-> 600, contrast |-> 1400, aperture |-> 28, shutter |-> 96],
      [upscaleStyle |-> "enhanced", focalLength |-> 50, focusDistance |-> 12],
      [saturation |-> 1300]>>

\* what the keyword tests say of a prompt: nothing, brighter or darker asked for,
\* everything allowed
GuardPrompts ==
    <<[allowLens |-> FALSE, allowDof |-> FALSE, allowShutter |-> FALSE,
       allowAggressiveExposure |-> FALSE, allowEnhanced |-> FALSE,
       preferLowNoise |-> FALSE],
      [allowLens |-> FALSE, allowDof |-> FALSE, allowShutter |-> FALSE,
       allowAggressiveExposure |-> TRUE, allowEnhanced |-> FALSE,
       preferLowNoise |-> TRUE],
      [allowLens |-> TRUE, allowDof |-> TRUE, allowShutter |-> TRUE,
       allowAggressiveExposure |-> FALSE, allowEnhanced |-> TRUE,
       preferLowNoise |-> FALSE]>>

\* subjects: none, a dark one, a middle one, a bright one
GuardSubjects ==
    <<<<>>, <<[brightness |-> 100]>>, <<[brightness |-> 500]>>,
      <<[brightness |-> 900]>>>>

NextAiGuard ==
    \/ Mount(<<>>, <<>>)
    \/ \E value \in ExposurePositions : SliderInput("exposureEV", value)
    \/ \E i \in DOMAIN GuardPatches, j \in DOMAIN GuardPrompts,
          k \in DOMAIN GuardSubjects :
           AiGuard(GuardPatches[i], GuardPrompts[j], GuardSubjects[k])

SpecAiGuard == ConstructedOn(4096, <<>>) /\ [][NextAiGuard]_vars


-----------------------------------------------------------------------------
(* SpecAspect: images of many shapes (square, wide, tall, a single row of a few  *)
(* pixels, odd sizes) at every upscale factor and preview scale, on every device *)
(* class                                                                         *)

AspectSizes ==
    {<<640, 480>>, <<3000, 2000>>, <<4001, 2999>>, <<6000, 6000>>, <<8000, 3>>,
     <<5, 7000>>, <<1, 1>>}

NextAspect ==
    \/ \E p \in ResolutionParams, fp \in FpErrors : SetParams(p, fp)
    \/ \E size \in AspectSizes, fp \in FpErrors : SetImage(size, fp)

SpecAspect == Init /\ [][NextAspect]_vars


-----------------------------------------------------------------------------
(* SpecSnapshot: captureSnapshotPng() is split at its awaits (the frame after  *)
(* previewScale was raised, the PNG encoding, and the end), with the           *)
(* Performance select, further clicks and destroy() in between                  *)

\* the record of a step of captureSnapshotPng(): the call it belongs to, its
\* previousPreviewScale, how it left ("none" while it awaits), whether
\* captureSnapshotCanvas() was called and how many times the store was written
SnapshotOp(id, previous, exit, captured, wrote, emits) ==
    [kind |-> "snapshot", update |-> "none", analysed |-> FALSE, emits |-> emits,
     frames |-> 0, snapshot |-> id, previous |-> previous, exit |-> exit,
     captured |-> captured, wrote |-> wrote]

\* faulty variant: the preview scale is not put back
SnapshotFinallySkipped(state, previous) == <<>>

\* the finally block of captureSnapshotPng(): the calls of the store it makes
SnapshotFinally(state, previous) ==
    IF previous < 4 THEN <<StoreSet(state, "previewScale", previous)>> ELSE <<>>

\* one step of captureSnapshotPng() on app a: a call of captureSnapshotCanvas() (or
\* none), then the calls of the store in steps, each heard by the subscriber while it
\* is subscribed
SnapshotStep(a, steps, capture, id, previous, exit) ==
    LET heard == IF "subscriber" \in a.listeners THEN steps ELSE <<>>
        notified == SelectSeq(heard, LAMBDA s : s[2])
        renders == SubscriberRenders(a.sourceMode, a.webcamVideo)
    IN  /\ app' = [a EXCEPT !.state = IF steps = <<>> THEN @ ELSE steps[Len(steps)][1],
                            !.op = SnapshotOp(id, previous, exit, capture # NoCapture,
                                              Len(steps), Len(notified))]
        /\ AppRunWith(AfterNotifications(SizesNow, heard), sourceTexture,
                      IF notified = <<>> THEN params ELSE notified[Len(notified)][1],
                      subjectContext, SubscriberRuns(SizesNow, heard, renders), capture)

\* captureSnapshotPng() from `const factor` on: the capture, then the await of
\* canvasToPngBlob, or the finally block when there is no canvas.  After destroy()
\* there is no renderer and the call throws.
SnapshotCaptured(a, id, previous, gl, fp) ==
    LET capture == IF a.destroyed
                   THEN [log |-> <<>>, result |-> [status |-> "threw", size |-> <<0, 0>>]]
                   ELSE captureSnapshotCanvas(a.state.upscaleFactor, gl, fp)
    IN  IF capture.result.status = "canvas"
        THEN SnapshotStep([a EXCEPT !.snapshots = @ \cup {[id |-> id, previous |-> previous,
                                                          awaits |-> "blob"]}],
                          <<>>, capture, id, previous, "none")
        ELSE SnapshotStep(a, SnapshotFinally(a.state, previous), capture, id, previous,
                          capture.result.status)

\* the click listener of the Snapshot button: captureSnapshotPng() up to its first await
SnapshotClick(gl, fp) ==
    LET id == app.snapshotClicks + 1
        previous == app.state.previewScale
        a == [app EXCEPT !.snapshotClicks = id]
    IN  /\ app.mounted
        /\ app.snapshotClicks < MaxSnapshots
        /\ IF previous < 4
           THEN SnapshotStep([a EXCEPT !.snapshots = @ \cup {[id |-> id,
                                                              previous |-> previous,
                                                              awaits |-> "frame"]}],
                             <<StoreSet(app.state, "previewScale", 4)>>, NoCapture, id,
                             previous, "none")
           ELSE SnapshotCaptured(a, id, previous, gl, fp)

\* the frame captureSnapshotPng() number id waited for after raising previewScale
SnapshotFrame(id, gl, fp) ==
    \E s \in app.snapshots :
        /\ s.id = id
        /\ s.awaits = "frame"
        /\ SnapshotCaptured([app EXCEPT !.snapshots = @ \ {s}], id, s.previous, gl, fp)

\* canvasToPngBlob() of captureSnapshotPng() number id settles: with a blob (the file
\* is downloaded), with null, or with an error of toBlob; then the finally block
SnapshotEncoded(id, blob) ==
    \E s \in app.snapshots :
        /\ s.id = id
        /\ s.awaits = "blob"
        /\ LET a == [app EXCEPT !.snapshots = @ \ {s}]
           IN  SnapshotStep(a, SnapshotFinally(a.state, s.previous), NoCapture, id,
                            s.previous,
                            IF blob = "blob" THEN "saved"
                            ELSE IF blob = "null" THEN "noblob" ELSE "threw")

\* the change listener of the Performance select
PerformanceSelect(value) ==
    /\ app.mounted
    /\ ParamChange("performance", app,
                   <<StoreSet(app.state, "previewScale", parsePreviewScale(value))>>)

\* what localStorage holds for the session: nothing, or the Performance mode 0.5
SnapshotSessions == <<<<>>, [previewScale |-> <<"number", 2>>]>>

SnapshotGl == {"ok", "noFramebuffer", "noTexture", "no2d"}

NextSnapshot ==
    \/ \E i \in DOMAIN SnapshotSessions : Mount(SnapshotSessions[i], <<>>)
    \/ \E value \in 2 .. 4 : PerformanceSelect(value)
    \/ \E gl \in SnapshotGl : SnapshotClick(gl, NoFpError)
    \/ \E id \in 1 .. MaxSnapshots, gl \in SnapshotGl : SnapshotFrame(id, gl, NoFpError)
    \/ \E id \in 1 .. MaxSnapshots, blob \in {"blob", "null", "threw"} :
           SnapshotEncoded(id, blob)
    \/ Destroy

SpecSnapshot == ConstructedOn(4096, <<>>) /\ [][NextSnapshot]_vars


-----------------------------------------------------------------------------
(* SpecPanel: parameter changes on a static source while the clock runs.  Time *)
(* passes whatever the user does; nothing obliges the user to act again.       *)

\* the change listener of the Histogram select
HistogramModeSelect(mode) ==
    /\ app.mounted
    /\ ParamChange("histogramMode", app, <<StoreSet(app.state, "histogramMode", mode)>>)

HistogramModes == {"original", "processed", "view"}

NextPanel ==
    \/ Mount(<<>>, <<>>)
    \/ \E key \in SliderKeys : \E value \in SliderPositions(key) : SliderInput(key, value)
    \/ \E code \in {"Space", "KeyS"} : KeyDown(code)
    \/ \E mode \in HistogramModes : HistogramModeSelect(mode)
    \/ AppResize
    \/ \E d \in AppTickSteps : AppTick(d)

SpecPanel ==
    /\ ConstructedOn(4096, <<>>)
    /\ [][NextPanel]_vars
    /\ WF_vars(\E d \in AppTickSteps : AppTick(d))

-----------------------------------------------------------------------------
(* Claims *)

\* C1: after any sequence of setParams calls and source-size changes the processing
\* resolution is at least 1 x 1, its larger side is at most maxProcessDimension and its
\* pixel count is at most maxProcessPixels (32,000,000).
C1_ProcessSizeWithinLimits ==
    /\ processWidth >= 1
    /\ processHeight >= 1
    /\ Max(processWidth, processHeight) <= maxProcessDimension
    /\ processWidth * processHeight <= DEFAULT_MAX_PROCESS_PIXELS

\* C1 witness: the requested size exceeds the dimension ceiling, the dimension-clamped
\* size still exceeds the pixel budget, and updateProcessSize has stored a smaller size
C1_BothClampsActed ==
    LET t == TargetSize(sourceWidth, sourceHeight, params)
        d == DimensionClamp(t, maxProcessDimension, <<0, 0, 0, 0>>)
    IN  /\ Max(t[1], t[2]) > maxProcessDimension
        /\ d[1] * d[2] > DEFAULT_MAX_PROCESS_PIXELS
        /\ processWidth < d[1]
        /\ processHeight < d[2]
        /\ pingPong.width = processWidth

\* C2 (as claimed): the processing resolution never exceeds the device's
\* MAX_TEXTURE_SIZE, whatever value the device reports, nor the pixel budget.
C2_WithinDeviceTextureLimit ==
    /\ Max(processWidth, processHeight) <= maxTextureSize
    /\ processWidth * processHeight <= DEFAULT_MAX_PROCESS_PIXELS

\* C3 (as claimed): whenever pipeline passes have run, both pool surfaces are allocated
\* at the current processWidth x processHeight, passes right after construction
\* included.
C3_PoolMatchesProcessSizeWhenDrawing ==
    glLog # <<>> =>
        /\ pingPong.width = processWidth
        /\ pingPong.height = processHeight
        /\ pingPong.targetA = <<processWidth, processHeight>>
        /\ pingPong.targetB = <<processWidth, processHeight>>

\* C5: render() and captureSnapshotCanvas() issue Input, Lens, Effects, Composite in
\* that order; Input writes A, Lens reads A and writes B, Effects reads B and writes A,
\* Composite reads A; no pass samples the surface it draws into and each pass samples
\* the surface the pass before it drew into.
C5_StageOrderAndPingPong ==
    glLog # <<>> =>
        /\ Len(glLog) >= 3
        /\ snapshotResult.status \in {"none", "canvas"} => Len(glLog) >= 4
        /\ \A i \in 1 .. Min(4, Len(glLog)) :
               glLog[i].stage = <<"Input", "Lens", "Effects", "Composite">>[i]
        /\ glLog[1].write = "A"
        /\ glLog[2].read = {"A"} /\ glLog[2].write = "B"
        /\ glLog[3].read = {"B"} /\ glLog[3].write = "A"
        /\ Len(glLog) >= 4 => glLog[4].read \cap {"A", "B"} = {"A"}
        /\ \A i \in 1 .. Len(glLog) : glLog[i].write \notin glLog[i].read
        /\ \A i \in 2 .. Min(4, Len(glLog)) :
               glLog[i].read \cap {"A", "B"} = {glLog[i - 1].write}

\* C5 witness: a render() has drawn all four stages, the last one to the canvas
C5_FrameRendered ==
    /\ Len(glLog) >= 4
    /\ glLog[4].write = "canvas"
    /\ frameIndex > 0

\* C4: a resize whose floored, at-least-1 dimensions equal the pool's dimensions
\* allocates nothing and changes nothing; any other resize allocates both surfaces at
\* the same new size; after any resize the pool is at least 1 x 1.
C4_ResizeIdempotentOrBoth ==
    /\ [](poolCall.called => pingPong.width >= 1 /\ pingPong.height >= 1)
    /\ [][poolCall'.called =>
            LET w == IF poolCall'.width < FracDen THEN 1 ELSE poolCall'.width \div FracDen
                h == IF poolCall'.height < FracDen THEN 1 ELSE poolCall'.height \div FracDen
            IN  IF w = pingPong.width /\ h = pingPong.height
                THEN /\ pingPong'.allocated = 0
                     /\ pingPong'.width = pingPong.width
                     /\ pingPong'.height = pingPong.height
                     /\ pingPong'.targetA = pingPong.targetA
                     /\ pingPong'.targetB = pingPong.targetB
                ELSE /\ pingPong'.allocated = 2
                     /\ pingPong'.width = w
                     /\ pingPong'.height = h
                     /\ pingPong'.targetA = <<w, h>>
                     /\ pingPong'.targetB = <<w, h>>]_vars

\* C4 witness: a resize with a fractional width and a non-positive height found the pool
\* already at the floored size and allocated nothing
C4_IdempotentCallSeen ==
    /\ poolCall.called
    /\ poolCall.width % FracDen # 0
    /\ poolCall.height <= 0
    /\ pingPong.width > 1
    /\ pingPong.height = 1
    /\ pingPong.allocated = 0

\* bins[i] + ... + bins[HISTOGRAM_BINS - 1]
RECURSIVE BinTotal(_, _)
BinTotal(bins, i) == IF i >= HISTOGRAM_BINS THEN 0 ELSE bins[i] + BinTotal(bins, i + 1)

\* C6: after every histogram recompute each channel's 64 bins sum to 128 * 128 = 16384;
\* a channel value v in 0..255 is counted in bin floor(v * 64 / 256), which lies in
\* 0..63 (a flat readback fills one bin per channel, a ramp fills every bin evenly).
C6_HistogramBinsSumToPixelCount ==
    /\ \A v \in 0 .. 255 :
           /\ HistBin(v) \in 0 .. 63
           /\ 256 * HistBin(v) <= v * 64
           /\ v * 64 < 256 * (HistBin(v) + 1)
    /\ histogram.version > 0 =>
           /\ BinTotal(histogram.r, 0) = 16384
           /\ BinTotal(histogram.g, 0) = 16384
           /\ BinTotal(histogram.b, 0) = 16384
           /\ histogramPixels = "flat" =>
                  /\ histogram.r[5] = 16384
                  /\ histogram.g[5] = 16384
                  /\ histogram.b[7] = 16384
           /\ histogramPixels = "white" => histogram.b[63] = 16384
           /\ histogramPixels = "ramp" => \A k \in 0 .. 63 : histogram.r[k] = 256

\* C6 witness: a recompute has binned a readback whose values spread over many bins
C6_SpreadReadbackBinned ==
    /\ histogram.version > 0
    /\ histogramPixels = "hash"
    /\ histogram.maxBin < 16384
    /\ histogram.r[63] > 0

\* C7: the histogram version never decreases and moves only by +1, only in a render
\* that finds at least 200 ms elapsed since the last recompute (or no recompute yet);
\* a render within 200 ms of the last recompute leaves the histogram as it is; the
\* first render after construction always recomputes.
C7_HistogramVersionRateLimited ==
    [][/\ histogram'.version >= histogram.version
       /\ histogram'.version # histogram.version =>
              /\ histogram'.version = histogram.version + 1
              /\ frameIndex' = frameIndex + 1
              /\ \/ lastHistogramUpdateMs = NegInfinity
                 \/ now - lastHistogramUpdateMs >= 200
              /\ lastHistogramUpdateMs' = now
       /\ (/\ frameIndex' # frameIndex
           /\ lastHistogramUpdateMs # NegInfinity
           /\ now - lastHistogramUpdateMs < 200) =>
              /\ histogram' = histogram
              /\ lastHistogramUpdateMs' = lastHistogramUpdateMs
       /\ (/\ frameIndex' # frameIndex
           /\ lastHistogramUpdateMs # NegInfinity
           /\ now - lastHistogramUpdateMs >= 200) =>
              histogram'.version = histogram.version + 1
       /\ histogram'.version = histogram.version =>
              lastHistogramUpdateMs' = lastHistogramUpdateMs
       /\ (frameIndex = 0 /\ frameIndex' = 1) => histogram'.version = 1]_vars

\* C7 witness: two frames were rendered, the second less than 200 ms after the
\* recompute the first one did, and only one recompute happened
C7_RenderWithinIntervalSkipped ==
    /\ frameIndex = 2
    /\ histogram.version = 1
    /\ now - lastHistogramUpdateMs > 0
    /\ now - lastHistogramUpdateMs < 200

\* C8: a composite fragment inside the image area, in split mode, takes the original
\* when its horizontal coordinate (2 col + 1) / (2 W), which lies in [0, 1), is below
\* splitPosition and the processed result otherwise; so splitPosition 0 gives the
\* processed-only image and splitPosition 1 the original-only image.
C8_SplitSelectsBySide ==
    (fragment.called /\ fragment.mode = "split" /\ fragment.out # "background") =>
        /\ 0 <= 2 * fragment.col + 1
        /\ 2 * fragment.col + 1 < 2 * fragment.viewport[1]
        /\ fragment.out = "original" <=>
               (2 * fragment.col + 1) * 1000
                   < fragment.splitPosition * 2 * fragment.viewport[1]
        /\ fragment.out = "processed" <=>
               (2 * fragment.col + 1) * 1000
                   >= fragment.splitPosition * 2 * fragment.viewport[1]
        /\ fragment.splitPosition = 0 => fragment.out = "processed"
        /\ fragment.splitPosition = 1000 => fragment.out = "original"

\* C8 witness: split mode at 0.5 on a letterboxed image; a fragment left of the split,
\* inside the image, took the original
C8_OriginalLeftOfSplit ==
    /\ fragment.called
    /\ fragment.mode = "split"
    /\ fragment.splitPosition = 500
    /\ fragment.canvas[1] * fragment.image[2] > fragment.image[1] * fragment.canvas[2]
    /\ fragment.out = "original"

\* C9: estimateSubjectContext on a uniform frame of at least 64 pixels, of any colour,
\* returns a context (not null) with center (0.5, 0.5), box (0.3, 0.3, 0.4, 0.4),
\* sharpness 0 and backlit false.
C9_FlatFrameGivesDefault ==
    (/\ analysis.called
     /\ analysis.frame.fg = analysis.frame.bg
     /\ analysis.frame.width * analysis.frame.height >= 64) =>
        /\ Len(analysis.result) = 1
        /\ analysis.result[1].center = [x |-> 500, y |-> 500]
        /\ analysis.result[1].box = [x |-> 300, y |-> 300, width |-> 400, height |-> 400]
        /\ analysis.result[1].sharpness = 0
        /\ analysis.result[1].backlit = FALSE

\* C9 witness: a flat, coloured frame of exactly 64 pixels with interior pixels was
\* analysed
C9_FlatFrameAnalysed ==
    /\ analysis.called
    /\ analysis.frame.fg = analysis.frame.bg
    /\ analysis.frame.bg[1] # analysis.frame.bg[2]
    /\ analysis.frame.width = 8
    /\ analysis.frame.height = 8
    /\ analysis.result # <<>>

\* C10 (as claimed): after any setSubjectContext the stored center is in the unit
\* square, the box is contained in it, box width and height are at least 0.02 and
\* strength is in [0, 1].
C10_SubjectBoxContainedAndMinSize ==
    /\ subjectContext.center.x \in 0 .. 1000
    /\ subjectContext.center.y \in 0 .. 1000
    /\ subjectContext.box.x >= 0
    /\ subjectContext.box.y >= 0
    /\ subjectContext.box.x + subjectContext.box.width <= 1000
    /\ subjectContext.box.y + subjectContext.box.height <= 1000
    /\ subjectContext.box.width >= 20
    /\ subjectContext.box.height >= 20
    /\ subjectContext.strength \in 0 .. 1000

\* C14 (as claimed): captureSnapshotCanvas runs Input, Lens, Effects and Composite at
\* the size returned by computeSnapshotSize, whatever the live processing size is.
C14_SnapshotStagesAtSnapshotSize ==
    snapshotResult.status = "canvas" =>
        \A i \in 1 .. Len(glLog) : glLog[i].viewport = snapshotResult.size

\* C15 (as claimed): no operation after construction throws; an allocation failure
\* inside captureSnapshotCanvas comes back as null.
C15_NoOperationThrows == snapshotResult.status # "threw"

\* the analysis reached the selection loop (the frame is large enough and not flat)
SelectionReached ==
    /\ analysis.called
    /\ analysis.result # <<>>
    /\ analysis.selected # {}

\* the analysis took the fallback branch: fewer than max(24, 1.2 % of the pixels) selected
FallbackTaken ==
    /\ SelectionReached
    /\ TooFewSelected(Cardinality(analysis.selected),
                      analysis.frame.width * analysis.frame.height)

\* the pixels of the analysed frame inside the returned box
ReturnedBoxPixels ==
    {i \in 0 .. analysis.frame.width * analysis.frame.height - 1 :
        /\ i % analysis.frame.width >= analysis.result[1].pixelBox[1]
        /\ i % analysis.frame.width <= analysis.result[1].pixelBox[3]
        /\ i \div analysis.frame.width >= analysis.result[1].pixelBox[2]
        /\ i \div analysis.frame.width <= analysis.result[1].pixelBox[4]}

\* C17 (as claimed): when fewer than max(24, 1.2 % of the pixels) are selected, the
\* returned box is the fallback box around the salience centroid, clipped to the frame
\* and not enlarged any further.
C17_FallbackBoxNotEnlarged ==
    FallbackTaken =>
        analysis.result[1].pixelBox =
            FallbackBox(analysis.frame.width, analysis.frame.height,
                        analysis.result[1].center.x, analysis.result[1].center.y)

\* C18 (as claimed): without fallback, brightness is the mean luminance of all pixels
\* inside the returned box and sharpness is the mean salience of all pixels inside it,
\* divided by 0.16 and clamped to [0, 1].
C18_StatisticsOverWholeBox ==
    (SelectionReached /\ ~FallbackTaken) =>
        /\ analysis.result[1].brightness =
               SumOver(LuminanceOf(analysis.frame), ReturnedBoxPixels,
                       analysis.frame.width * analysis.frame.height)
                   \div Cardinality(ReturnedBoxPixels)
        /\ analysis.result[1].sharpness =
               clamp((SumOver(SalienceOf(LuminanceOf(analysis.frame),
                                         analysis.frame.width, analysis.frame.height),
                              ReturnedBoxPixels,
                              analysis.frame.width * analysis.frame.height) * 100)
                         \div (16 * Cardinality(ReturnedBoxPixels)), 0, 1000)

\* the frame shows a square darker than its surround, away from the frame's border
DarkerSquareFrame ==
    /\ SelectionReached
    /\ Luminance(analysis.frame.fg) < Luminance(analysis.frame.bg)
    /\ analysis.frame.rect[1] >= 2
    /\ analysis.frame.rect[2] >= 2
    /\ analysis.frame.rect[3] <= analysis.frame.width - 3
    /\ analysis.frame.rect[4] <= analysis.frame.height - 3

\* the frame shows a square brighter than its surround
BrighterSquareFrame ==
    /\ SelectionReached
    /\ Luminance(analysis.frame.fg) > Luminance(analysis.frame.bg)

\* the mean luminance of the ring around the returned box; -1 when the ring is empty
RingMean ==
    IF RingPixels(analysis.frame.width, analysis.frame.height,
                  analysis.result[1].pixelBox) = {}
    THEN -1
    ELSE SumOver(LuminanceOf(analysis.frame),
                 RingPixels(analysis.frame.width, analysis.frame.height,
                            analysis.result[1].pixelBox),
                 analysis.frame.width * analysis.frame.height)
             \div Cardinality(RingPixels(analysis.frame.width, analysis.frame.height,
                                         analysis.result[1].pixelBox))

\* backlit exactly when the ring mean exceeds the subject brightness by more than 0.11
\* and the subject brightness is below 0.6
BacklitRule ==
    SelectionReached =>
        (analysis.result[1].backlit <=>
            /\ RingMean - analysis.result[1].brightness > 110
            /\ analysis.result[1].brightness < 600)

\* C19 (as claimed): backlit exactly when the ring mean exceeds the subject mean by more
\* than 0.11 and the subject mean is below 0.6; a bright square on a dark background is
\* not backlit; every bright ring around a darker central square is backlit.
C19_BacklitRuleAndScenarios ==
    /\ BacklitRule
    /\ BrighterSquareFrame => ~analysis.result[1].backlit
    /\ DarkerSquareFrame => analysis.result[1].backlit

\* C19: backlit exactly when the ring mean exceeds the reported subject brightness by
\* more than 0.11 and that brightness is below 0.6; so backlit implies brightness < 0.6;
\* a bright square on a dark background is not backlit; a white ring around a black or
\* dark grey central square that is selected without fallback is backlit.
C19_BacklitRuleAndStrongScenarios ==
    /\ BacklitRule
    /\ (SelectionReached /\ analysis.result[1].backlit) =>
           analysis.result[1].brightness < 600
    /\ BrighterSquareFrame => ~analysis.result[1].backlit
    /\ (/\ DarkerSquareFrame
        /\ ~FallbackTaken
        /\ Luminance(analysis.frame.bg) = 1000
        /\ Luminance(analysis.frame.fg) <= 51) => analysis.result[1].backlit

\* C19 witness: a 48 x 48 white frame with a black 6 x 6 central square was analysed
\* without fallback and marked backlit, its ring brighter than its subject
C19_WhiteRingBlackSquareBacklit ==
    /\ DarkerSquareFrame
    /\ ~FallbackTaken
    /\ analysis.frame.width = 48
    /\ analysis.frame.rect = <<21, 21, 26, 26>>
    /\ analysis.frame.bg = <<255, 255, 255>>
    /\ analysis.frame.fg = <<0, 0, 0>>
    /\ analysis.result[1].backlit
    /\ RingMean = 1000

-----------------------------------------------------------------------------
(* C11, C16: the parameters handed to the renderer *)

\* p has every numeric field inside PARAM_VALUE_LIMITS, upscaleFactor in
\* {1, 1.5, ..., 4}, previewScale in {0.5, 0.75, 1} and splitPosition in [0, 1]
ParamsInRange(p) ==
    /\ \A k \in NumericKeys :
           PARAM_VALUE_LIMITS[k][1] <= p[k] /\ p[k] <= PARAM_VALUE_LIMITS[k][2]
    /\ p.upscaleFactor \in 2 .. 8
    /\ p.previewScale \in 2 .. 4
    /\ 0 <= p.splitPosition /\ p.splitPosition <= 1000

\* C11: every parameter set handed to the renderer through setParams (by the
\* subscriber of the mounted app) has every numeric field inside its documented range,
\* upscaleFactor in {1, 1.5, 2, 2.5, 3, 3.5, 4}, previewScale in {0.5, 0.75, 1} and
\* splitPosition in [0, 1], after any sequence of slider and dial input, custom-preset
\* load and apply, and session restore from arbitrary finite stored values.
C11_ParamsHandedOverInRange == app.mounted => ParamsInRange(params)

\* the baseline of the README ("Reset and Original-Reference Baseline"), in the units
\* of DEFAULT_CAMERA_PARAMS
ReadmeBaseline ==
    [exposureEV |-> 0, shutter |-> 3, iso |-> 100, aperture |-> 220, focalLength |-> 18,
     focusDistance |-> 500, distortion |-> 0, vignette |-> 0, chromaAberration |-> 0,
     temperature |-> 0, tint |-> 0, contrast |-> 1000, saturation |-> 1000,
     sharpen |-> 0, noiseReduction |-> 800, toneMap |-> FALSE, upscaleFactor |-> 2,
     upscaleStyle |-> "balanced"]

\* C16: after Reset (the Reset button or the R key) the parameters are the documented
\* baseline: exposure 0, shutter 1/8000, ISO 100, aperture f/22, focal length 18 mm,
\* focus distance 50 m, distortion, vignette and chromatic aberration 0, temperature
\* and tint 0, contrast and saturation 1, sharpen 0, noise reduction 0.8, tone map
\* off, upscale 1x with style Balanced.
C16_ResetRestoresBaseline ==
    app.op.kind = "reset" =>
        \A k \in DOMAIN ReadmeBaseline :
            app.state[k] = ReadmeBaseline[k] /\ params[k] = ReadmeBaseline[k]

-----------------------------------------------------------------------------
(* C12, C13, C20: the app around the renderer *)

\* C12: subject analysis is rate-limited: a non-forced updateSubjectContextForRenderer
\* call runs the analysis only if at least SUBJECT_ANALYSIS_INTERVAL_MS (320 ms) have
\* elapsed since the previous analysis, and otherwise reuses the latest snapshot without
\* analysing; a forced call (image load, switch back to image source, AI prompt)
\* always runs the analysis and restarts the interval.
C12_RateLimited ==
    [][/\ (app'.op.update = "nonforced" /\ app'.op.analysed)
              => now - app.analysedAt >= SUBJECT_ANALYSIS_INTERVAL_MS
       /\ (app'.op.update = "nonforced" /\ ~app'.op.analysed)
              => /\ now - app.analysedAt < SUBJECT_ANALYSIS_INTERVAL_MS
                 /\ app'.latestSubjectContext = app.latestSubjectContext
                 /\ app'.lastSubjectAnalysisMs = app.lastSubjectAnalysisMs
       /\ app'.op.update = "forced"
              => /\ app'.op.analysed
                 /\ app'.lastSubjectAnalysisMs = now]_vars

\* C12 as amended: a non-forced call runs the analysis exactly when at least 320 ms
\* have elapsed since the previous analysis or disableWebcam() ran since the previous
\* analysis (there was none yet included); otherwise it reuses the latest snapshot
\* without analysing; a forced call always runs the analysis and restarts the interval.
C12_RateLimitedUnlessDisabled ==
    [][/\ app'.op.update = "nonforced"
              => (app'.op.analysed
                     <=> \/ now - app.analysedAt >= SUBJECT_ANALYSIS_INTERVAL_MS
                         \/ app.disabledSince)
       /\ (app'.op.update = "nonforced" /\ ~app'.op.analysed)
              => /\ app'.latestSubjectContext = app.latestSubjectContext
                 /\ app'.lastSubjectAnalysisMs = app.lastSubjectAnalysisMs
       /\ app'.op.update = "forced"
              => /\ app'.op.analysed
                 /\ app'.lastSubjectAnalysisMs = now]_vars

\* a webcam frame inside the interval reused the snapshot of an earlier frame
C12_FrameReusedSnapshot ==
    /\ app.op.update = "nonforced"
    /\ ~app.op.analysed
    /\ app.latestSubjectContext # <<>>
    /\ now - app.analysedAt < SUBJECT_ANALYSIS_INTERVAL_MS

\* C13: at every render() the subject context the Lens and Effects passes read is a
\* context (never null) and equals the renderer form of the latest completed analysis
\* snapshot, toRendererSubjectContext(latestSubjectContext), or the default context
\* with strength 0 when no snapshot exists, after any interleaving of image loads,
\* source switches, webcam frames, AI prompts and parameter changes.
C13_ContextIsLatestSnapshot ==
    glLog # <<>> =>
        /\ DOMAIN subjectContext = {"center", "box", "strength"}
        /\ subjectContext = IF app.latestSubjectContext = <<>>
                            THEN DEFAULT_SUBJECT_CONTEXT
                            ELSE toRendererSubjectContext(app.latestSubjectContext[1])
        /\ app.latestSubjectContext = <<>> => subjectContext.strength = 0

\* a frame of the webcam was rendered with the snapshot of the webcam picture
C13_WebcamFrameWithSnapshot ==
    /\ glLog # <<>>
    /\ app.sourceMode = "webcam"
    /\ app.latestSubjectContext # <<>>
    /\ subjectContext.strength > 0

\* the number of pass sequences the most recent handler started
PipelineRuns == Cardinality({i \in DOMAIN glLog : glLog[i].stage = "Input"})

\* every pass of the most recent handler follows the pass before it in a sequence, and
\* the last sequence is complete
PassesInSequence ==
    /\ \A i \in DOMAIN glLog :
           LET before == IF i = 1 THEN "none" ELSE glLog[i - 1].stage
           IN  /\ glLog[i].stage = "Input" => before \in {"none", "Composite", "Histogram"}
               /\ glLog[i].stage = "Lens" => before = "Input"
               /\ glLog[i].stage = "Effects" => before = "Lens"
               /\ glLog[i].stage = "Composite" => before = "Effects"
               /\ glLog[i].stage = "Histogram" => before = "Composite"
    /\ glLog # <<>> => glLog[Len(glLog)].stage \in {"Composite", "Histogram"}

\* C20: each emitted parameter change causes exactly one pipeline run from the
\* parameter subscriber when the source is static (sourceMode is image, or no webcam
\* video is attached) and none when a webcam video is attached; the render loop runs
\* the pipeline once per animation frame; no pass sequence starts while another is in
\* progress.
C20_OneRunPerChange ==
    /\ (app.op.kind \in {"key", "reset", "ai", "slider", "dial", "preset"})
           => PipelineRuns = IF app.sourceMode # "webcam" \/ ~app.webcamVideo
                             THEN app.op.emits ELSE 0
    /\ app.op.kind = "frame" => PipelineRuns = app.op.frames
    /\ PassesInSequence

\* a parameter changed while a webcam video was attached, and the subscriber did not
\* render
C20_ChangeDuringWebcam ==
    /\ app.op.emits = 1
    /\ app.sourceMode = "webcam"
    /\ app.webcamVideo
    /\ glLog = <<>>

-----------------------------------------------------------------------------
\* C22: CameraParamStore notifies only on real changes.  A set(key, value) whose value
\* is the current one and a patch(partial) whose merged result equals the state on
\* every key leave the state object in place and call no listener; every other set
\* or patch, and every reset(), assigns a new state object and calls each subscribed
\* listener exactly once with it (and nobody else).
StoreCallChanges ==
    LET op == app'.op
    IN  \/ op.kind = "reset"
        \/ op.kind = "set" /\ app.state[op.args[1]] # op.args[2]
        \/ /\ op.kind = "patch"
           /\ \E k \in DOMAIN op.args[1] : op.args[1][k] # app.state[k]

C22_NotifiesOnlyOnRealChanges ==
    [][app'.op.kind \in {"set", "patch", "reset"} =>
          IF StoreCallChanges
          THEN /\ app'.op.replaced
               /\ app'.op.kind # "reset" => app'.state # app.state
               /\ app'.op.handed = <<app'.state>>
               /\ \A l \in Listeners :
                      app'.op.calls[l] = IF l \in app.listeners THEN 1 ELSE 0
          ELSE /\ ~app'.op.replaced
               /\ app'.state = app.state
               /\ \A l \in Listeners : app'.op.calls[l] = 0]_vars

\* a set() of the current value went by without a call while both listeners were
\* subscribed
C22_EqualSetWithListeners ==
    /\ app.op.kind = "set"
    /\ app.listeners = Listeners
    /\ ~app.op.replaced
    /\ app.state[app.op.args[1]] = app.op.args[2]

-----------------------------------------------------------------------------
\* C28: enforceAiPatchSafety keeps exposure changes conservative.  For every current
\* exposureEV in [-3, 3] and every suggested exposureEV, the exposureEV of the result
\* differs from the current one by at most 0.35 when the prompt does not ask for a
\* brighter or darker look, and by at most 0.9 when it does.
C28_ExposureDeltaBounded ==
    (/\ app.op.kind = "guard"
     /\ "exposureEV" \in DOMAIN app.op.patch
     /\ app.op.current.exposureEV >= -3000
     /\ app.op.current.exposureEV <= 3000)
    => /\ "exposureEV" \in DOMAIN app.op.result
       /\ Abs(app.op.result.exposureEV - app.op.current.exposureEV)
              <= IF app.op.prompt.allowAggressiveExposure THEN 900 ELSE 350

-----------------------------------------------------------------------------
\* The side sourceSide * s in eighths of a pixel, as an interval <<low, high>> that
\* contains it, for the side of this axis (1: width, 2: height).  s is the product of
\* upscale, previewScale, the factor of the dimension clamp (maxDimension / maxDim, or
\* 1) and the factor of the pixel clamp (sqrt(maxPixels / pixelCount), or 1), each as
\* updateProcessSize computes it.  With X = sourceSide * upscale * previewScale *
\* dimension factor, w the side after the dimension clamp and b the pixel factor,
\* sourceSide * s = X * b = w * b + (X - w) * b, where w * b = sqrt(w * maxPixels / h)
\* lies between two integers and 0 < b < 1.
ScaledSide(axis, sw, sh, p, maxDimension, fp) ==
    LET side == IF axis = 1 THEN sw ELSE sh
        eighths == side * coerceUpscaleFactor(p.upscaleFactor)
                        * clampNumber(p.previewScale, 2, 4)
        t == TargetSize(sw, sh, p)
        maxDim == Max(t[1], t[2])
        d == DimensionClamp(t, maxDimension, fp)
        w == d[axis]
        h == d[3 - axis]
        xLow == IF maxDim > maxDimension THEN (eighths * maxDimension) \div maxDim
                ELSE eighths
        xHigh == IF maxDim > maxDimension /\ (eighths * maxDimension) % maxDim # 0
                 THEN xLow + 1 ELSE xLow
        q == BudgetRatio(w, h, DEFAULT_MAX_PROCESS_PIXELS)
        rLow == ISqrt(q)
        rHigh == IF BudgetRatioExact(w, h, DEFAULT_MAX_PROCESS_PIXELS) /\ IsSquare(q)
                 THEN rLow ELSE rLow + 1
    IN  IF d[1] * d[2] > DEFAULT_MAX_PROCESS_PIXELS
        THEN <<8 * rLow + Min(0, xLow - 8 * w), 8 * rHigh + Max(0, xHigh - 8 * w)>>
        ELSE <<xLow, xHigh>>

\* the side of the processing resolution is less than 3 pixels from sourceSide * s
SideWithinThree(axis, processSide, sw, sh, p, maxDimension, fp) ==
    LET scaled == ScaledSide(axis, sw, sh, p, maxDimension, fp)
    IN  /\ 8 * processSide - scaled[1] < 24
        /\ scaled[2] - 8 * processSide < 24

\* C30: for every source size, upscaleFactor and previewScale the source aspect ratio
\* is preserved through both clamps up to integer rounding: with the one scale factor s
\* (upscale * previewScale * dimension-clamp factor * pixel-budget factor),
\* processWidth is less than 3 pixels from sourceWidth * s and processHeight is less
\* than 3 pixels from sourceHeight * s.
C30_AspectPreservedWithinRounding ==
    \A fp \in FpErrors :
        NextProcessSize(sourceWidth, sourceHeight, params, maxProcessDimension, fp)
            = <<processWidth, processHeight>>
        => /\ SideWithinThree(1, processWidth, sourceWidth, sourceHeight, params,
                              maxProcessDimension, fp)
           /\ SideWithinThree(2, processHeight, sourceWidth, sourceHeight, params,
                              maxProcessDimension, fp)

\* both clamps acted on a source of 3000 x 2000 at upscale 4 and the stored size is
\* the one updateProcessSize computes, neither side a whole multiple of the source's
C30_BothClampsRounded ==
    LET t == TargetSize(sourceWidth, sourceHeight, params)
        d == DimensionClamp(t, maxProcessDimension, <<0, 0, 0, 0>>)
    IN  /\ sourceWidth = 3000
        /\ params.upscaleFactor = 8
        /\ Max(t[1], t[2]) > maxProcessDimension
        /\ d[1] * d[2] > DEFAULT_MAX_PROCESS_PIXELS
        /\ \E fp \in FpErrors :
               NextProcessSize(sourceWidth, sourceHeight, params, maxProcessDimension, fp)
                   = <<processWidth, processHeight>>
        /\ processWidth * sourceHeight # processHeight * sourceWidth

\* C23: every MediaStream startWebcam obtained is the app's current webcamStream or
\* has had its tracks stopped, for every interleaving of source switches, image loads
\* and webcam starts that complete in either order
C23_NoStreamRunsUnreferenced ==
    \A s \in app.streams : s = app.webcamStream

\* C24: a webcam start that completes after it became stale (its token is not the
\* current sourceSwitchToken, or sourceMode is not webcam) leaves the renderer's source
\* texture and source dimensions as they were
C24_StaleStartLeavesSource ==
    [][(app'.op.kind = "stale" /\ ~app.destroyed)
           => UNCHANGED <<sourceTexture, sourceWidth, sourceHeight>>]_vars

\* a webcam stream is attached and the render loop is scheduled
WebcamActive(a) ==
    /\ a.sourceMode = "webcam"
    /\ a.webcamVideo
    /\ a.webcamStream # 0
    /\ a.webcamFrameHandle

\* the handlers that may end the webcam: a source switch, an image load, page hide,
\* destroy
EndsWebcam(kind) == kind \in {"source", "load", "pagehide", "destroy"}

\* C25: when the start of the most recent webcam selection completes, a stream is
\* attached and the render loop is scheduled, and this lasts until the next source
\* switch, image load, page hide or destroy, whatever earlier starts do meanwhile
C25_CurrentWebcamStaysActive ==
    [][/\ (/\ ~app.destroyed
           /\ app'.webcamRequests # app.webcamRequests
           /\ app'.op.kind = "frame") => WebcamActive(app')
       /\ (WebcamActive(app) /\ ~EndsWebcam(app'.op.kind)) => WebcamActive(app')]_vars

\* the handlers that run disableWebcam() on the current source
DisablesWebcam ==
    \/ app'.op.kind \in {"load", "pagehide", "destroy", "stale"}
    \/ app'.op.kind = "source" /\ app'.sourceMode = "image" /\ app.sourceMode = "webcam"
    \/ app'.op.kind = "webcam" /\ app'.sourceMode = "image" /\ app.sourceMode = "webcam"

\* C26: at most one render-loop callback is pending, one is pending only while
\* sourceMode is webcam with a video attached, no callback is pending after
\* disableWebcam, and a callback that renders was pending on an attached video
C26_OneLoopOnlyWhileWebcam ==
    /\ [](/\ app.pendingFrames \in {0, 1}
          /\ app.pendingFrames = 1 => (app.sourceMode = "webcam" /\ app.webcamVideo))
    /\ [][/\ DisablesWebcam => app'.pendingFrames = 0
          /\ (/\ app'.op.kind = "frame"
              /\ app'.op.frames = 1
              /\ app'.webcamRequests = app.webcamRequests)
                 => (app.pendingFrames = 1 /\ app.webcamVideo
                     /\ app.sourceMode = "webcam")]_vars

\* a stale start ran disableWebcam() on a loop that was running for another stream
C26_LoopCancelledByStaleStart ==
    /\ app.op.kind = "stale"
    /\ app.sourceMode = "webcam"
    /\ app.streams # {}
    /\ app.pendingFrames = 0
    /\ ~app.webcamFrameHandle

\* C27: after a switch back to image with an image loaded, the renderer's source
\* texture and source dimensions are those of the image and the subject context in use
\* was computed from that image
C27_ImageShownAfterSwitchBack ==
    (app.op.kind = "source" /\ app.op.update = "forced" /\ app.loadedImage # <<>>)
        => /\ sourceTexture = "image"
           /\ <<sourceWidth, sourceHeight>> = ImageSize
           /\ app.latestSubjectContext = analyzeSubjectContext(app.loadedImage, TRUE)

\* C21: captureSnapshotPng raises a previewScale below 1 to 1 before the capture, on
\* every way out (saved, no canvas, no blob, an error thrown) previewScale is put back
\* to the value it had when the snapshot started, and a snapshot that started at
\* previewScale 1 does not write the parameter store
C21_SnapshotRestoresPreviewScale ==
    [][app'.op.kind = "snapshot" =>
           /\ (app'.op.previous < 4 /\ app'.op.exit = "none" /\ ~app'.op.captured)
                  => app'.state.previewScale = 4
           /\ (app'.op.previous < 4 /\ app'.op.captured)
                  => \E s \in app.snapshots :
                         s.id = app'.op.snapshot /\ s.awaits = "frame"
           /\ (app'.op.previous < 4 /\ app'.op.exit # "none")
                  => app'.state.previewScale = app'.op.previous
           /\ app'.op.previous = 4
                  => (app'.op.wrote = 0 /\ app'.state = app.state)]_vars

\* a snapshot that started at previewScale 0.5 ended on an error and left 0.5 behind
C21_RestoredAfterThrow ==
    /\ app.op.kind = "snapshot"
    /\ app.op.exit = "threw"
    /\ app.op.previous = 2
    /\ app.state.previewScale = 2

\* the app shows a static source and its histogram was computed under parameters
\* other than the current ones
HistogramStale ==
    /\ app.mounted
    /\ app.sourceMode # "webcam" \/ ~app.webcamVideo
    /\ histogramParams # params

====
